---- MODULE Spec2Model ----
(***************************************************************************)
(* Collaborative TODO app: the server side of the optimistic sync engine.  *)
(*                                                                         *)
(* The server is one Node.js process.  Every route handler is an async     *)
(* function; each `await` is a suspension point at which the continuation  *)
(* of another request may run.  A handler is therefore modelled as a       *)
(* sequence of atomic segments (the code between two awaits), and the      *)
(* segments of different requests interleave freely.  The store functions  *)
(* are async functions without an inner await: their body runs             *)
(* synchronously at the call, inside the calling segment.                  *)
(*                                                                         *)
(* Strings are sequences of code units and are compared the way JavaScript *)
(* compares strings (lexicographically); timestamps are fixed-width digit  *)
(* strings as produced by Date.prototype.toISOString.  Objects live in a   *)
(* heap and are referred to by reference, because the store hands out and  *)
(* mutates the stored objects themselves.                                  *)
(***************************************************************************)
EXTENDS Integers, Sequences, FiniteSets, TLC

(***************************************************************************)
(* Bounds of the model.                                                    *)
(***************************************************************************)
\* number of requests that can be in flight at once
MaxHandlers == 2
\* number of todo objects ever allocated
MaxObjs == 3
\* largest value the monotonic clock may reach (one tick per write attempt)
MaxTs == 4
\* largest wall-clock reading (readings may repeat and go backwards)
MaxClock == 2
\* largest expectedVersion a request carries
MaxExpected == 4
\* `changed` messages counted per open connection (the count stops there)
MaxSignals == 2

Slots == 1..MaxHandlers

\* todo ids as code-unit strings: "a", "b"
TodoIds == {<<1>>, <<2>>}
\* an id the identifier regex rejects (code unit 0 stands for a blank)
BadId == <<0>>
ListIds == {"L1", "L2"}
Titles == {"t1"}
Conns == {"k1", "k2"}
TodoStates == {"TODO", "ONGOING", "DONE"}

\* longest identifier accepted
MaxIdentifierLength == 128
\* code units matched by /[a-zA-Z0-9_-]/
IdentifierChars == 1..9
Digits == 0..9

\* a well-formed and a malformed client-assigned createdAt
GoodCreatedAt == <<0, 1>>
BadCreatedAt == <<0>>

(***************************************************************************)
(* String helpers.                                                         *)
(***************************************************************************)
RECURSIVE StrLess(_, _)
\* JavaScript's `a < b` on strings: lexicographic on code units
StrLess(a, b) ==
  IF b = <<>> THEN FALSE
  ELSE IF a = <<>> THEN TRUE
  ELSE IF Head(a) # Head(b) THEN Head(a) < Head(b)
  ELSE StrLess(Tail(a), Tail(b))

StrGreater(a, b) == StrLess(b, a)

\* new Date(ms).toISOString(): fixed width, most significant digit first
ToISOString(ms) == <<(ms \div 10) % 10, ms % 10>>

\* the empty string is falsy
Truthy(s) == s # <<>>

\* width of a timestamp string
TsWidth == Len(ToISOString(0))

(***************************************************************************)
(* Todo state machine (shared by client and server).                       *)
(***************************************************************************)
\* the table with DONE reopening straight to TODO
AllowedNextStatesWithReopen ==
  [TODO |-> <<"ONGOING">>, ONGOING |-> <<"TODO", "DONE">>, DONE |-> <<"ONGOING", "TODO">>]

ALLOWED_NEXT_STATES ==
  [TODO |-> <<"ONGOING">>, ONGOING |-> <<"TODO", "DONE">>, DONE |-> <<"ONGOING">>]

\* Array.prototype.includes
Includes(arr, x) == \E i \in DOMAIN arr : arr[i] = x

isValidTransition(from, to) == Includes(ALLOWED_NEXT_STATES[from], to)

getAllowedNextStates(state) == ALLOWED_NEXT_STATES[state]

(***************************************************************************)
(* Request validation helpers.                                             *)
(***************************************************************************)
isValidISOString(value) ==
  /\ Len(value) = TsWidth
  /\ \A i \in DOMAIN value : value[i] \in Digits

isValidIdentifier(value) ==
  /\ Len(value) >= 1
  /\ Len(value) <= MaxIdentifierLength
  /\ \A i \in DOMAIN value : value[i] \in IdentifierChars

(***************************************************************************)
(* Sync token codec.  A token is the JSON text of the payload, modelled as *)
(* the sequence of its keys and values; the base64 layer is a bijection on *)
(* that text.  The empty string is the absent token.                       *)
(***************************************************************************)
NoToken == <<>>
\* a token that does not decode to a payload
MalformedToken == <<"garbage">>
\* decodeSyncToken's null
NullPayload == [null |-> TRUE]

\* the token without the id that breaks ties
encodeSyncTokenWithoutId(payload) == <<"lastUpdatedAt", payload.lastUpdatedAt>>

\* JSON.stringify drops a key whose value is undefined
encodeSyncToken(payload) ==
  IF "lastId" \in DOMAIN payload
  THEN <<"lastUpdatedAt", payload.lastUpdatedAt, "lastId", payload.lastId>>
  ELSE <<"lastUpdatedAt", payload.lastUpdatedAt>>

decodeSyncToken(token) ==
  IF Len(token) = 2 /\ token[1] = "lastUpdatedAt"
  THEN [lastUpdatedAt |-> token[2]]
  ELSE IF Len(token) = 4 /\ token[1] = "lastUpdatedAt" /\ token[3] = "lastId"
  THEN [lastUpdatedAt |-> token[2], lastId |-> token[4]]
  ELSE NullPayload

IsPayload(p) == "lastUpdatedAt" \in DOMAIN p

\* the cursor `undefined`
NoCursor == [none |-> TRUE]

\* routes/todos.ts: the cursor a sync request's token stands for
CursorOfToken(token) ==
  IF ~Truthy(token) THEN NoCursor
  ELSE LET payload == decodeSyncToken(token) IN
       IF ~IsPayload(payload) THEN NoCursor
       ELSE IF "lastId" \notin DOMAIN payload
       THEN [updatedAt |-> payload.lastUpdatedAt]
       ELSE [updatedAt |-> payload.lastUpdatedAt, todoId |-> payload.lastId]

\* cursor?.updatedAt as a condition
CursorHasUpdatedAt(cursor) == "updatedAt" \in DOMAIN cursor /\ Truthy(cursor.updatedAt)


(***************************************************************************)
(* State.                                                                  *)
(***************************************************************************)
VARIABLES
  lastMonotonicTimestampMs, \* utils/time.ts: the last timestamp handed out
  lists,                    \* store: ids of the lists created
  heap,                     \* the todo objects allocated, by reference 1..Len(heap)
  todos,                    \* store: todo id -> reference (0: no entry)
  todosByList,              \* store: list id -> set of todo ids
  subscribers,              \* sse: list id -> set of open connections
  subscriberLists,          \* sse: the list ids that have an entry in the Map
  handlers,                 \* the requests in flight and their position
  syncToken,                \* per list: the cursor token its syncing client holds
  tsLog,                    \* history: the timestamps getMonotonicISOString returned
  lastWriteAt,              \* history: the updatedAt of the latest accepted write
  lastWrite,                \* history: list id -> todo id of the latest write it can see
  accepted,                 \* history: todo id -> number of accepted updates
  created,                  \* history: todo id -> number of 201 answers
  race,                     \* history: per object, the CAS calls of the current race
  syncMon,                  \* history: per list, the writes around its client's syncs
  signals,                  \* sse: connection -> `changed` messages written to it
  web                       \* the web client: its stores, sync state and calls in flight

vars == <<lastMonotonicTimestampMs, lists, heap, todos, todosByList, subscribers,
          subscriberLists,
          handlers, syncToken, tsLog, lastWriteAt, lastWrite, accepted,
          created, race, syncMon, signals, web>>

storeVars == <<lists, heap, todos, todosByList>>
writeVars == <<lastWriteAt, lastWrite, syncMon>>
histVars == <<tsLog, writeVars, accepted, created, race>>

(***************************************************************************)
(* Values.                                                                 *)
(***************************************************************************)
\* an absent deletedAt
NoDeletedAt == <<>>

\* a handler slot with no request in it
Idle ==
  [kind |-> "idle", pc |-> "idle", listId |-> "L1", id |-> <<>>, title |-> "t1",
   createdAt |-> <<>>, nextState |-> "TODO", expectedVersion |-> 0,
   token |-> NoToken, tracked |-> FALSE, conn |-> "k1", exists |-> FALSE, ref |-> 0,
   batch |-> <<>>, reason |-> "none", gap |-> -1, quiet |-> -1, prevGap |-> -1, snapLast |-> <<>>]

\* the segment sends no response
NoResp == [status |-> 0, code |-> "none", body |-> <<>>, syncToken |-> NoToken]

\* reply.status(status).send(...)
Resp(status, code, body) ==
  [status |-> status, code |-> code, body |-> body, syncToken |-> NoToken]

\* the todo id's stored object
Stored(id) == heap[todos[id]]
HasTodo(id) == id \in TodoIds /\ todos[id] # 0

\* the lowest free handler slot takes the next request
FreeSlot(h) ==
  /\ handlers[h].kind = "idle"
  /\ \A g \in Slots : g < h => handlers[g].kind # "idle"

(***************************************************************************)
(* utils/time.ts                                                           *)
(***************************************************************************)
\* the wall clock taken as it reads, without the bump
WallClockMs(nowMs) == nowMs

\* the new lastMonotonicTimestampMs when Date.now() reads nowMs
NextMonotonicMs(nowMs) ==
  IF nowMs <= lastMonotonicTimestampMs
  THEN lastMonotonicTimestampMs + 1
  ELSE nowMs

\* the string getMonotonicISOString returns when Date.now() reads nowMs
getMonotonicISOString(nowMs) == ToISOString(NextMonotonicMs(nowMs))

(***************************************************************************)
(* store.ts                                                                *)
(***************************************************************************)
\* the cursor comparison taking the cursor's own position as after it
isTodoAtOrAfterCursor(todo, cursor) ==
  IF StrGreater(todo.updatedAt, cursor.updatedAt) THEN TRUE
  ELSE IF todo.updatedAt = cursor.updatedAt /\ ~StrLess(todo.id, cursor.todoId) THEN TRUE
  ELSE FALSE

isTodoAfterCursor(todo, cursor) ==
  IF StrGreater(todo.updatedAt, cursor.updatedAt) THEN TRUE
  ELSE IF todo.updatedAt = cursor.updatedAt /\ StrGreater(todo.id, cursor.todoId) THEN TRUE
  ELSE FALSE

\* the comparator getTodosForList sorts with
CompareTodos(a, b) ==
  IF a.updatedAt = b.updatedAt
  THEN IF a.id = b.id THEN 0 ELSE IF StrLess(a.id, b.id) THEN -1 ELSE 1
  ELSE IF StrLess(a.updatedAt, b.updatedAt) THEN -1 ELSE 1

RECURSIVE SortRefs(_)
\* Array.prototype.sort with CompareTodos, on a set of references
SortRefs(refs) ==
  IF refs = {} THEN <<>>
  ELSE LET first == CHOOSE r \in refs :
                      \A q \in refs : CompareTodos(heap[r], heap[q]) <= 0
       IN <<first>> \o SortRefs(refs \ {first})

\* the filter of getTodosForList: the todo passes the cursor
PassesCursor(todo, cursor) ==
  IF CursorHasUpdatedAt(cursor)
  THEN LET cursorWithDefault ==
             [updatedAt |-> cursor.updatedAt,
              todoId |-> IF "todoId" \in DOMAIN cursor THEN cursor.todoId ELSE <<>>]
       IN isTodoAfterCursor(todo, cursorWithDefault)
  ELSE TRUE

\* the references getTodosForList returns, in order
getTodosForList(listId, cursor) ==
  SortRefs({todos[id] : id \in {i \in todosByList[listId] :
                                  todos[i] # 0 /\ PassesCursor(heap[todos[i]], cursor)}})

\* compareAndSwapTodo without the version comparison (last writer wins)
compareAndSwapTodoUnchecked(todoId, expectedVersion, updates) ==
  LET ref == todos[todoId] IN
  IF ref = 0
  THEN [reason |-> "not-found", ref |-> 0, heap |-> heap]
  ELSE [reason |-> "success", ref |-> ref,
        heap |-> [heap EXCEPT ![ref] =
                    [@ EXCEPT !.state = updates.state,
                              !.updatedAt = updates.updatedAt,
                              !.version = expectedVersion + 1]]]

\* compareAndSwapTodo: the outcome, the object it concerns and the heap after it
compareAndSwapTodo(todoId, expectedVersion, updates) ==
  LET ref == todos[todoId] IN
  IF ref = 0
  THEN [reason |-> "not-found", ref |-> 0, heap |-> heap]
  ELSE IF heap[ref].version # expectedVersion
  THEN [reason |-> "conflict", ref |-> ref, heap |-> heap]
  ELSE [reason |-> "success", ref |-> ref,
        heap |-> [heap EXCEPT ![ref] =
                    [@ EXCEPT !.state = updates.state,
                              !.updatedAt = updates.updatedAt,
                              !.version = expectedVersion + 1]]]

(***************************************************************************)
(* sse.ts                                                                  *)
(***************************************************************************)
\* subscribe(listId, reply): the list's set, created when the Map has none
subscribe(listId, conn) ==
  [subscribers EXCEPT ![listId] = @ \cup {conn}]

\* subscribe: the Map's keys after it
subscribeEntry(listId) == subscriberLists \cup {listId}

\* unsubscribe(listId, reply): the connection leaves the list's set, if any
unsubscribe(listId, conn) ==
  [subscribers EXCEPT ![listId] = @ \ {conn}]

\* unsubscribe that leaves the emptied set in the Map
unsubscribeKeepingEntry(listId, conn) == subscriberLists

\* unsubscribe: the Map's keys after it; the entry goes with its last connection
unsubscribeEntry(listId, conn) ==
  IF listId \in subscriberLists /\ subscribers[listId] \ {conn} = {}
  THEN subscriberLists \ {listId}
  ELSE subscriberLists

\* notifyListChanged: the connections whose write throws are dropped (the
\* list's entry stays in the Map)
notifyListChanged(listId, failing) ==
  [subscribers EXCEPT ![listId] = @ \ failing]

\* notifyListChanged writing to the subscribers of every list
notifyWritesToAllLists(listId, failing) ==
  [k \in Conns |->
     IF k \in (UNION {subscribers[l] : l \in ListIds}) \ failing
     THEN IF signals[k] < MaxSignals THEN signals[k] + 1 ELSE signals[k]
     ELSE signals[k]]

\* notifyListChanged: reply.raw.write(message) for each subscriber of the list;
\* the messages written per connection after it
notifyWrites(listId, failing) ==
  [k \in Conns |->
     IF k \in subscribers[listId] \ failing
     THEN IF signals[k] < MaxSignals THEN signals[k] + 1 ELSE signals[k]
     ELSE signals[k]]

(***************************************************************************)
(* The web client (apps/web): values.                                      *)
(***************************************************************************)
\* mutation-processor loops the client can have alive at a time
MaxRuns == 2
\* pending mutations queued per todo
MaxQueue == 2
\* utils/retry.ts
DEFAULT_RETRIES == 10
\* largest run generation at which the user still switches lists
MaxGeneration == 3

RunSlots == 1..MaxRuns

\* listStore.listId null
NoList == "none"
\* Map.get's undefined for a todo
NoTodo == [none |-> TRUE]
IsTodo(t) == "id" \in DOMAIN t

\* the client's wall clock reading when it stamps a local change
LocalNow == GoodCreatedAt

\* a run slot with no processMutations call in it.  pc: the await the call is
\* suspended at; gen: its runGeneration argument; mutation: the one it took
\* from the queue; validation, result: what validateMutation and
\* executeMutation returned; resp: the answer to its request; failed (history):
\* the requests of the call that failed on the network since its last answer
NoRun ==
  [pc |-> "none", todoId |-> <<>>, gen |-> 0, attempt |-> 1, nextState |-> "TODO",
   expectedVersion |-> 0, resp |-> NoResp, failed |-> 0]

\* no api call of that kind in flight.  waiter: the run (or -1: joinList) that
\* awaits the syncOnce call; thenRestart: the caller chained
\* `.finally(restartAllMutationRuns)`; gen (history): the run generation when
\* the call was made; repeat (history): syncOnce was called while this request
\* was in flight
NoCall ==
  [pc |-> "none", listId |-> NoList, token |-> NoToken, waiter |-> 0,
   thenRestart |-> FALSE, id |-> <<>>, resp |-> NoResp, gen |-> 0,
   repeat |-> FALSE]

\* entries kept of each history sequence
MaxLog == 3

\* history kept next to the client's state (no code reads it), from the moment
\* an observer starts watching a todo: the generation, cached version and
\* cached state at that moment, the states enqueued for the todo since, and the
\* state-change requests sent for it since, each with the status of its answer
\* once the processor has handled it (0 before)
NoHistory ==
  [watch |-> FALSE, id |-> <<>>, gen |-> 0, base |-> 0, state |-> "TODO",
   enq |-> <<>>, log |-> <<>>]

\* history of the last call of mergeTodos, kept when `on`: its arguments and the
\* cache it found
NoMerge ==
  [on |-> FALSE, done |-> FALSE, local |-> <<>>, incoming |-> <<>>,
   cache |-> [id \in TodoIds |-> NoTodo]]

(***************************************************************************)
(* packages/core utils/retry.ts                                            *)
(***************************************************************************)
\* what a task may throw: Error objects, an AbortError, and a value that is
\* not an Error
TaskFailed == [isError |-> TRUE, name |-> "Error", message |-> "Task failed"]
ServerError == [isError |-> TRUE, name |-> "Error", message |-> "HTTP 500"]
AbortError == [isError |-> TRUE, name |-> "AbortError", message |-> "aborted"]
StringError == [isError |-> FALSE, name |-> "", message |-> "string error"]
NonErrorThrown == [isError |-> TRUE, name |-> "TypeError", message |-> "Non-error was thrown"]
AttemptsExhausted ==
  [isError |-> TRUE, name |-> "Error",
   message |-> "Retry attempts exhausted without throwing an error."]
NoError == [isError |-> FALSE, name |-> "", message |-> ""]

\* no call of retry.  pc: the await the call is suspended at; retries,
\* hasShouldRetry, hasSignal: its options; aborted: the signal's flag; attempt:
\* the local variable; calls, backoffs: the arguments the task and the backoff
\* timer were called with, in order; failures: what the task threw, in order;
\* verdicts: what shouldRetry returned, in order; outcome: how the call settled
NoRetry ==
  [pc |-> "none", retries |-> 0, hasShouldRetry |-> FALSE, hasSignal |-> FALSE,
   aborted |-> FALSE, attempt |-> 0, calls |-> <<>>, backoffs |-> <<>>,
   failures |-> <<>>, verdicts |-> <<>>,
   outcome |-> [kind |-> "none", value |-> 0, error |-> NoError]]

\* `return result`
Returned(c, value) ==
  [c EXCEPT !.pc = "done", !.outcome = [kind |-> "returned", value |-> value,
                                        error |-> NoError]]

\* `throw error` out of retry
Threw(c, error) ==
  [c EXCEPT !.pc = "done", !.outcome = [kind |-> "threw", value |-> 0, error |-> error]]

\* the catch block retrying while `attempt <= maxAttempts`
CaughtOnceMore(c, error, verdict) ==
  IF ~error.isError THEN Threw(c, NonErrorThrown)
  ELSE IF error.name = "AbortError" THEN Threw(c, error)
  ELSE IF c.attempt > c.retries + 1 THEN Threw(c, error)
  ELSE IF c.hasShouldRetry /\ ~verdict
  THEN Threw([c EXCEPT !.verdicts = Append(@, verdict)], error)
  ELSE [c EXCEPT !.verdicts = IF c.hasShouldRetry THEN Append(@, verdict) ELSE @,
                 !.pc = "backoff", !.backoffs = Append(@, c.attempt)]

\* the catch block, to `await backoff(attempt, signal)` or to its throw;
\* verdict: what shouldRetry returns if it is called
Caught(c, error, verdict) ==
  IF ~error.isError THEN Threw(c, NonErrorThrown)
  ELSE IF error.name = "AbortError" THEN Threw(c, error)
  ELSE IF c.attempt >= c.retries + 1 THEN Threw(c, error)
  ELSE IF c.hasShouldRetry /\ ~verdict
  THEN Threw([c EXCEPT !.verdicts = Append(@, verdict)], error)
  ELSE [c EXCEPT !.verdicts = IF c.hasShouldRetry THEN Append(@, verdict) ELSE @,
                 !.pc = "backoff", !.backoffs = Append(@, c.attempt)]

\* the loop from `while (attempt <= maxAttempts)` to `await task(attempt)`
retryLoop(c) ==
  IF c.attempt > c.retries + 1 THEN Threw(c, AttemptsExhausted)
  ELSE IF c.hasSignal /\ c.aborted THEN Caught(c, AbortError, TRUE)
  ELSE [c EXCEPT !.pc = "task", !.calls = Append(@, c.attempt)]

\* retry(task, {retries, shouldRetry, signal, backoff}) up to its first await
retry(retries, hasShouldRetry, hasSignal) ==
  retryLoop([NoRetry EXCEPT !.retries = retries, !.hasShouldRetry = hasShouldRetry,
                            !.hasSignal = hasSignal, !.attempt = 1])

\* the task's promise is fulfilled: `signal?.throwIfAborted(); return result`
retryTaskFulfilled(c, value) ==
  IF c.hasSignal /\ c.aborted THEN Caught(c, AbortError, TRUE)
  ELSE Returned(c, value)

\* the task's promise is rejected
retryTaskRejected(c, error, verdict) ==
  Caught([c EXCEPT !.failures = Append(@, error)], error, verdict)

\* the backoff timer's promise is fulfilled: `attempt += 1` and the loop
retryBackoffDone(c) == retryLoop([c EXCEPT !.attempt = @ + 1])

\* the stores and module variables of the client when the page has loaded
WebInit ==
  [user |-> FALSE, status |-> "loading",
   listId |-> NoList, listError |-> FALSE, actionStatus |-> "idle",
   todos |-> <<>>, syncToken |-> NoToken,
   serverState |-> [id \in TodoIds |-> NoTodo],
   pendingMutations |-> [id \in TodoIds |-> <<>>],
   pendingKeys |-> {},       \* the keys of the pendingMutations Map
   activeRuns |-> {},
   runGeneration |-> 0,
   isSyncing |-> FALSE, syncQueued |-> FALSE,
   currentSubscription |-> NoList,
   previousConnectionStatus |-> "disconnected",
   exhausted |-> {},
   heard |-> 0,              \* history: stamp of the latest change announced to the client
   runs |-> [r \in RunSlots |-> NoRun],
   sync |-> NoCall, create |-> NoCall, join |-> NoCall,
   retry |-> NoRetry,        \* the call of retry(...) the client has made
   hist |-> NoHistory, merge |-> NoMerge]

(***************************************************************************)
(* Initial state: an empty store, no request in flight.                    *)
(***************************************************************************)
\* history: an object no CAS race is recorded for
NoRace == [base |-> 0, calls |-> 0, succ |-> 0, confl |-> 0, conflVersions |-> {}]

\* history: counters stop at "two or more"
Cap(n) == IF n > 2 THEN 2 ELSE n

\* history: no sync of the list's client has completed, no write has been made.
\* syncs: completed syncs; sinceSnap, sinceResp: writes since the client's latest
\* store read and since its latest response; gap: the writes between the latest
\* completed sync's store read and the response before it (-1: there was none)
NoSync == [syncs |-> 0, sinceSnap |-> 0, sinceResp |-> 0, gap |-> -1]

Init ==
  /\ lastMonotonicTimestampMs = 0
  /\ lists = {}
  /\ heap = <<>>
  /\ todos = [id \in TodoIds |-> 0]
  /\ todosByList = [l \in ListIds |-> {}]
  /\ subscribers = [l \in ListIds |-> {}]
  /\ subscriberLists = {}
  /\ handlers = [h \in Slots |-> Idle]
  /\ syncToken = [l \in ListIds |-> NoToken]
  /\ tsLog = <<>>
  /\ lastWriteAt = <<>>
  /\ lastWrite = [l \in ListIds |-> <<>>]
  /\ accepted = [id \in TodoIds |-> 0]
  /\ created = [id \in TodoIds |-> 0]
  /\ race = <<>>
  /\ syncMon = [l \in ListIds |-> NoSync]
  /\ signals = [k \in Conns |-> 0]
  /\ web = WebInit

\* the handler ends: its request is answered
Ends(h) == handlers' = [handlers EXCEPT ![h] = Idle]

\* history: the accepted write of todo id at updatedAt, seen by the lists in newByList
Written(id, updatedAt, newByList) ==
  /\ lastWriteAt' = updatedAt
  /\ lastWrite' = [l \in ListIds |-> IF id \in newByList[l] THEN id ELSE lastWrite[l]]
  /\ syncMon' = [l \in ListIds |->
       IF id \in newByList[l]
       THEN [syncMon[l] EXCEPT !.sinceSnap = Cap(@ + 1), !.sinceResp = Cap(@ + 1)]
       ELSE syncMon[l]]

(***************************************************************************)
(* POST /lists, reduced to the store's createList.                         *)
(***************************************************************************)
CreateList(l) ==
  /\ l \notin lists
  /\ lists' = lists \cup {l}
  /\ UNCHANGED <<lastMonotonicTimestampMs, heap, todos, todosByList, subscribers, subscriberLists, signals,
                 handlers, syncToken, web, histVars>>

(***************************************************************************)
(* GET /lists/:listId/todos                                                *)
(***************************************************************************)
\* the request arrives; the handler runs up to `await listExists(listId)`.
\* A tracked request is the list's syncing client: it sends the token it holds
\* and has one sync in flight at a time.
SyncStart(h, l, tracked, token) ==
  /\ FreeSlot(h)
  /\ IF tracked
     THEN /\ l \in lists
          /\ token = syncToken[l]
          /\ \A g \in Slots : ~(handlers[g].kind = "sync" /\ handlers[g].tracked
                                /\ handlers[g].listId = l)
     ELSE token \in {NoToken, MalformedToken}
  /\ handlers' = [handlers EXCEPT ![h] =
       [Idle EXCEPT !.kind = "sync", !.pc = "sync_exists", !.listId = l,
                    !.tracked = tracked, !.token = token, !.exists = (l \in lists)]]
  /\ UNCHANGED <<lastMonotonicTimestampMs, storeVars, subscribers, subscriberLists, signals, syncToken, web, histVars>>

\* the token the sync route answers with, for a batch of references and a cursor
NewSyncToken(batch, cursor) ==
  LET latestUpdatedAt ==
        IF batch # <<>> THEN heap[batch[Len(batch)]].updatedAt
        ELSE IF "updatedAt" \in DOMAIN cursor THEN cursor.updatedAt
        ELSE ToISOString(0)
  IN IF batch # <<>>
     THEN encodeSyncToken([lastUpdatedAt |-> latestUpdatedAt,
                           lastId |-> heap[batch[Len(batch)]].id])
     ELSE IF "todoId" \in DOMAIN cursor
     THEN encodeSyncToken([lastUpdatedAt |-> latestUpdatedAt, lastId |-> cursor.todoId])
     ELSE encodeSyncToken([lastUpdatedAt |-> latestUpdatedAt])

\* the response the sync handler sends when its next segment runs
SyncResponse(req) ==
  IF req.pc = "sync_exists"
  THEN IF req.exists THEN NoResp ELSE Resp(404, "NOT_FOUND", <<>>)
  ELSE [status |-> 200, code |-> "OK",
        body |-> [i \in DOMAIN req.batch |-> heap[req.batch[i]]],
        syncToken |-> NewSyncToken(req.batch, CursorOfToken(req.token))]

\* after listExists: 404, or decode the token and call getTodosForList
SyncList(h) ==
  /\ handlers[h].pc = "sync_exists"
  /\ IF SyncResponse(handlers[h]) # NoResp
     THEN /\ Ends(h)
          /\ UNCHANGED syncMon
     ELSE LET l == handlers[h].listId
              mon == syncMon[l]
              tracked == handlers[h].tracked
          IN /\ handlers' = [handlers EXCEPT ![h] =
                  [@ EXCEPT !.pc = "sync_reply",
                            !.batch = getTodosForList(l, CursorOfToken(handlers[h].token)),
                            !.gap = IF tracked /\ mon.syncs > 0 THEN mon.sinceResp ELSE -1,
                            !.quiet = IF tracked /\ mon.syncs > 0 THEN mon.sinceSnap ELSE -1,
                            !.prevGap = IF tracked THEN mon.gap ELSE -1,
                            !.snapLast = lastWrite[l]]]
             /\ syncMon' = IF tracked
                           THEN [syncMon EXCEPT ![l] = [@ EXCEPT !.sinceSnap = 0]]
                           ELSE syncMon
  /\ UNCHANGED <<lastMonotonicTimestampMs, storeVars, subscribers, subscriberLists, signals, syncToken, web, tsLog,
                 lastWriteAt, lastWrite, accepted, created, race>>

\* after getTodosForList: build the new token and send the batch; the list's
\* client keeps the token
SyncReply(h) ==
  /\ handlers[h].pc = "sync_reply"
  /\ LET req == handlers[h]
         l == req.listId
     IN /\ Ends(h)
        /\ IF req.tracked
           THEN /\ syncToken' = [syncToken EXCEPT ![l] = SyncResponse(req).syncToken]
                /\ syncMon' = [syncMon EXCEPT ![l] =
                     [@ EXCEPT !.syncs = Cap(@ + 1), !.sinceResp = 0, !.gap = req.gap]]
           ELSE UNCHANGED <<syncToken, syncMon>>
  /\ UNCHANGED <<web, lastMonotonicTimestampMs, storeVars, subscribers, subscriberLists, signals, tsLog, lastWriteAt,
                 lastWrite, accepted, created, race>>

(***************************************************************************)
(* POST /lists/:listId/todos                                               *)
(***************************************************************************)
\* the request arrives: validation (400), then up to `await listExists(listId)`
CreateStart(h, l, id, title, createdAt) ==
  /\ FreeSlot(h)
  /\ IF ~isValidIdentifier(id) \/ ~isValidISOString(createdAt)
     THEN UNCHANGED handlers
     ELSE handlers' = [handlers EXCEPT ![h] =
            [Idle EXCEPT !.kind = "create", !.pc = "create_exists", !.listId = l,
                         !.id = id, !.title = title, !.createdAt = createdAt,
                         !.exists = (l \in lists)]]
  /\ UNCHANGED <<lastMonotonicTimestampMs, storeVars, subscribers, subscriberLists, signals, syncToken, web, histVars>>

\* the response the create handler sends when its next segment runs
CreateResponse(req) ==
  IF req.pc = "create_exists"
  THEN IF req.exists THEN NoResp ELSE Resp(404, "NOT_FOUND", <<>>)
  ELSE IF req.pc = "create_check"
  THEN IF req.ref = 0 THEN NoResp ELSE Resp(409, "ALREADY_EXISTS", <<>>)
  ELSE Resp(201, "CREATED", <<heap[req.ref]>>)

\* after listExists: 404, or up to `await getTodo(id)`
CreateLookup(h) ==
  /\ handlers[h].pc = "create_exists"
  /\ IF CreateResponse(handlers[h]) # NoResp
     THEN Ends(h)
     ELSE handlers' = [handlers EXCEPT ![h] =
            [@ EXCEPT !.pc = "create_check", !.ref = todos[handlers[h].id]]]
  /\ UNCHANGED <<lastMonotonicTimestampMs, storeVars, subscribers, subscriberLists, signals, syncToken, web, histVars>>

\* the todo object the create route builds
NewTodo(req, updatedAt) ==
  [id |-> req.id, listId |-> req.listId, title |-> req.title, state |-> "TODO",
   createdAt |-> req.createdAt, updatedAt |-> updatedAt, version |-> 1,
   deletedAt |-> NoDeletedAt]

\* after getTodo: 409, or stamp the todo and call createTodo
CreateStore(h, nowMs) ==
  /\ handlers[h].pc = "create_check"
  /\ IF CreateResponse(handlers[h]) # NoResp
     THEN /\ Ends(h)
          /\ UNCHANGED <<lastMonotonicTimestampMs, storeVars, histVars>>
     ELSE LET req == handlers[h]
              todo == NewTodo(req, getMonotonicISOString(nowMs))
              ref == Len(heap) + 1
              newByList == [todosByList EXCEPT ![req.listId] = @ \cup {req.id}]
          IN /\ lastMonotonicTimestampMs < MaxTs
             /\ Len(heap) < MaxObjs
             /\ lastMonotonicTimestampMs' = NextMonotonicMs(nowMs)
             /\ heap' = Append(heap, todo)
             /\ todos' = [todos EXCEPT ![req.id] = ref]
             /\ todosByList' = newByList
             /\ handlers' = [handlers EXCEPT ![h] =
                  [@ EXCEPT !.pc = "create_reply", !.ref = ref]]
             /\ tsLog' = Append(tsLog, todo.updatedAt)
             /\ Written(req.id, todo.updatedAt, newByList)
             /\ race' = Append(race, NoRace)
             /\ UNCHANGED <<lists, accepted, created>>
  /\ UNCHANGED <<subscribers, subscriberLists, signals, syncToken, web>>

\* after createTodo: notify the list and answer 201 with the stored object
CreateReply(h, failing) ==
  /\ handlers[h].pc = "create_reply"
  /\ failing \subseteq subscribers[handlers[h].listId]
  /\ subscribers' = notifyListChanged(handlers[h].listId, failing)
  /\ subscriberLists' = subscriberLists
  /\ signals' = notifyWrites(handlers[h].listId, failing)
  /\ Ends(h)
  /\ created' = [created EXCEPT ![handlers[h].id] = @ + 1]
  /\ UNCHANGED <<lastMonotonicTimestampMs, storeVars, syncToken, web, tsLog, writeVars,
                 accepted, race>>

(***************************************************************************)
(* PATCH /todos/:todoId/state                                              *)
(***************************************************************************)
\* the request arrives; the handler runs up to `await getTodo(todoId)`
PatchStart(h, id, nextState, expectedVersion) ==
  /\ FreeSlot(h)
  /\ handlers' = [handlers EXCEPT ![h] =
       [Idle EXCEPT !.kind = "patch", !.pc = "patch_apply", !.id = id,
                    !.nextState = nextState, !.expectedVersion = expectedVersion,
                    !.ref = todos[id]]]
  /\ UNCHANGED <<lastMonotonicTimestampMs, storeVars, subscribers, subscriberLists, signals, syncToken, web, histVars>>

\* the update route comparing versions only, without validating the transition
PatchResponseUnvalidated(req) ==
  IF req.pc = "patch_apply"
  THEN IF req.ref = 0 \/ Truthy(heap[req.ref].deletedAt)
       THEN Resp(404, "NOT_FOUND", <<>>)
       ELSE NoResp
  ELSE IF req.reason = "not-found" THEN Resp(404, "NOT_FOUND", <<>>)
  ELSE IF req.reason = "conflict" THEN Resp(409, "VERSION_CONFLICT", <<heap[req.ref]>>)
  ELSE Resp(200, "OK", <<heap[req.ref]>>)

\* the update route looking up the todo without regard to deletedAt
PatchResponseOfDeleted(req) ==
  IF req.pc = "patch_apply"
  THEN IF req.ref = 0
       THEN Resp(404, "NOT_FOUND", <<>>)
       ELSE IF ~isValidTransition(heap[req.ref].state, req.nextState)
       THEN Resp(400, "INVALID_TRANSITION", <<>>)
       ELSE NoResp
  ELSE IF req.reason = "not-found" THEN Resp(404, "NOT_FOUND", <<>>)
  ELSE IF req.reason = "conflict" THEN Resp(409, "VERSION_CONFLICT", <<heap[req.ref]>>)
  ELSE Resp(200, "OK", <<heap[req.ref]>>)

\* the response the update handler sends when its next segment runs
PatchResponse(req) ==
  IF req.pc = "patch_apply"
  THEN IF req.ref = 0 \/ Truthy(heap[req.ref].deletedAt)
       THEN Resp(404, "NOT_FOUND", <<>>)
       ELSE IF ~isValidTransition(heap[req.ref].state, req.nextState)
       THEN Resp(400, "INVALID_TRANSITION", <<>>)
       ELSE NoResp
  ELSE IF req.reason = "not-found" THEN Resp(404, "NOT_FOUND", <<>>)
  ELSE IF req.reason = "conflict" THEN Resp(409, "VERSION_CONFLICT", <<heap[req.ref]>>)
  ELSE Resp(200, "OK", <<heap[req.ref]>>)

\* history: the race record of an object after one more CAS call
RaceAfter(r, expectedVersion, versionBefore, reason, versionAfter) ==
  LET s == IF reason = "success" THEN 1 ELSE 0
      c == IF reason = "conflict" THEN 1 ELSE 0
      cv == IF reason = "conflict" THEN {versionAfter} ELSE {}
  IN IF r.calls > 0 /\ expectedVersion = r.base
     THEN [r EXCEPT !.calls = @ + 1, !.succ = @ + s, !.confl = @ + c,
                    !.conflVersions = @ \cup cv]
     ELSE IF expectedVersion = versionBefore
     THEN [base |-> expectedVersion, calls |-> 1, succ |-> s, confl |-> c,
           conflVersions |-> cv]
     ELSE NoRace

\* after getTodo: 404, 400, or stamp the update and call compareAndSwapTodo
PatchApply(h, nowMs) ==
  /\ handlers[h].pc = "patch_apply"
  /\ IF PatchResponse(handlers[h]) # NoResp
     THEN /\ Ends(h)
          /\ UNCHANGED <<lastMonotonicTimestampMs, storeVars, histVars>>
     ELSE LET req == handlers[h]
              updatedAt == getMonotonicISOString(nowMs)
              cas == compareAndSwapTodo(req.id, req.expectedVersion,
                       [state |-> req.nextState, updatedAt |-> updatedAt])
              target == todos[req.id]
          IN /\ lastMonotonicTimestampMs < MaxTs
             /\ lastMonotonicTimestampMs' = NextMonotonicMs(nowMs)
             /\ heap' = cas.heap
             /\ handlers' = [handlers EXCEPT ![h] =
                  [@ EXCEPT !.pc = "patch_reply", !.reason = cas.reason, !.ref = cas.ref]]
             /\ tsLog' = Append(tsLog, updatedAt)
             /\ IF cas.reason = "success"
                THEN /\ Written(req.id, updatedAt, todosByList)
                     /\ accepted' = [accepted EXCEPT ![req.id] = @ + 1]
                ELSE UNCHANGED <<writeVars, accepted>>
             /\ race' = [race EXCEPT ![target] =
                  RaceAfter(@, req.expectedVersion, heap[target].version, cas.reason,
                            cas.heap[target].version)]
             /\ UNCHANGED <<lists, todos, todosByList, created>>
  /\ UNCHANGED <<subscribers, subscriberLists, signals, syncToken, web>>

\* after compareAndSwapTodo: 404, 409 with the current object, or notify and 200
PatchReply(h, failing) ==
  /\ handlers[h].pc = "patch_reply"
  /\ IF handlers[h].reason = "success"
     THEN /\ failing \subseteq subscribers[heap[handlers[h].ref].listId]
          /\ subscribers' = notifyListChanged(heap[handlers[h].ref].listId, failing)
          /\ subscriberLists' = subscriberLists
          /\ signals' = notifyWrites(heap[handlers[h].ref].listId, failing)
     ELSE /\ failing = {}
          /\ UNCHANGED <<subscribers, subscriberLists, signals>>
  /\ Ends(h)
  /\ UNCHANGED <<lastMonotonicTimestampMs, storeVars, syncToken, web, histVars>>

(***************************************************************************)
(* GET /lists/:listId/events                                               *)
(***************************************************************************)
\* a connection that is neither subscribed nor being opened
FreeConn(k) ==
  /\ \A l \in ListIds : k \notin subscribers[l]
  /\ \A g \in Slots : ~(handlers[g].kind = "events" /\ handlers[g].conn = k)

\* the request arrives; the handler runs up to `await listExists(listId)`
EventsStart(h, l, k) ==
  /\ FreeSlot(h)
  /\ FreeConn(k)
  /\ handlers' = [handlers EXCEPT ![h] =
       [Idle EXCEPT !.kind = "events", !.pc = "events_exists", !.listId = l,
                    !.conn = k, !.exists = (l \in lists)]]
  /\ UNCHANGED <<lastMonotonicTimestampMs, storeVars, subscribers, subscriberLists, signals, syncToken, web, histVars>>

\* the response the events handler sends when its segment runs
EventsResponse(req) ==
  IF req.exists THEN Resp(200, "connected", <<>>) ELSE Resp(404, "NOT_FOUND", <<>>)

\* after listExists: 404, or send `connected` and subscribe the connection
EventsOpen(h) ==
  /\ handlers[h].pc = "events_exists"
  /\ IF EventsResponse(handlers[h]).status = 404
     THEN UNCHANGED <<subscribers, subscriberLists, signals>>
     ELSE /\ subscribers' = subscribe(handlers[h].listId, handlers[h].conn)
          /\ subscriberLists' = subscribeEntry(handlers[h].listId)
          /\ signals' = [signals EXCEPT ![handlers[h].conn] = 0]
  /\ Ends(h)
  /\ UNCHANGED <<lastMonotonicTimestampMs, storeVars, syncToken, web, histVars>>

\* the client closes the connection: the 'close' listener unsubscribes it
ConnClose(l, k) ==
  /\ k \in subscribers[l]
  /\ subscribers' = unsubscribe(l, k)
  /\ subscriberLists' = unsubscribeEntry(l, k)
  /\ signals' = [signals EXCEPT ![k] = 0]
  /\ UNCHANGED <<lastMonotonicTimestampMs, storeVars, handlers, syncToken, web, histVars>>

\* the client closes a connection that a failed write has already dropped from
\* its list's set: the 'close' listener's unsubscribe finds nothing to delete in
\* the set and removes the list's entry if the set is empty.  (While the entry
\* is there with an empty set, the connection dropped last is still to close.)
DroppedClose(l, k) ==
  /\ l \in subscriberLists
  /\ subscribers[l] = {}
  /\ subscribers' = unsubscribe(l, k)
  /\ subscriberLists' = unsubscribeEntry(l, k)
  /\ UNCHANGED <<lastMonotonicTimestampMs, storeVars, signals, handlers, syncToken, web,
                 histVars>>

\* the response handler h sends when its next segment runs (NoResp: none yet)
Response(h) ==
  LET req == handlers[h] IN
  IF req.kind = "sync" THEN SyncResponse(req)
  ELSE IF req.kind = "create" THEN CreateResponse(req)
  ELSE IF req.kind = "patch" THEN PatchResponse(req)
  ELSE IF req.kind = "events" THEN EventsResponse(req)
  ELSE NoResp

\* handler h's request is answered in this step
Replies(h) == handlers[h].kind # "idle" /\ handlers'[h].kind = "idle"

(***************************************************************************)
(* Properties of the write path (checked under SpecWrite).                 *)
(***************************************************************************)
\* the edges of the todo state machine, as the specification lists them
Edges == {<<"TODO", "ONGOING">>, <<"ONGOING", "TODO">>, <<"ONGOING", "DONE">>,
          <<"DONE", "ONGOING">>}

\* C1: of the compareAndSwapTodo calls that race on one stored entity with the
\* same expectedVersion v (v being its version when the first is made), exactly
\* one returns success and every other returns conflict with currentTodo at
\* version v + 1, in every interleaving of their handlers.
C1_ExactlyOneRacingUpdateWins ==
  \A ref \in DOMAIN race :
    race[ref].calls >= 1 =>
      /\ race[ref].succ = 1
      /\ race[ref].confl = race[ref].calls - 1
      /\ race[ref].conflVersions \subseteq {race[ref].base + 1}

\* two updates based on the same version are in flight together, both past
\* their compareAndSwapTodo call: one has won, the other has lost
C1_Witness ==
  \E h, g \in Slots :
    /\ handlers[h].pc = "patch_reply" /\ handlers[h].reason = "success"
    /\ handlers[g].pc = "patch_reply" /\ handlers[g].reason = "conflict"
    /\ handlers[h].ref = handlers[g].ref
    /\ handlers[h].expectedVersion = handlers[g].expectedVersion
    /\ race[handlers[h].ref].calls = 2
    /\ race[handlers[h].ref].confl = 1

\* client B of scenario A: {nextState: TODO, expectedVersion: v} has read the
\* entity, which is at version v + 1 in state DONE since client A's update
\* {nextState: DONE, expectedVersion: v} was accepted.  (Through the routes an
\* entity is ONGOING at even versions only, so v is 2 where the scenario says 3.)
ScenarioB(req) ==
  /\ req.kind = "patch" /\ req.pc = "patch_apply"
  /\ req.nextState = "TODO"
  /\ req.ref # 0 /\ req.ref = todos[req.id]
  /\ heap[req.ref].version = req.expectedVersion + 1 /\ heap[req.ref].state = "DONE"
  /\ race[req.ref].base = req.expectedVersion /\ race[req.ref].succ = 1

Validating(req) ==
  /\ req.kind = "patch" /\ req.pc = "patch_apply"
  /\ req.ref # 0 /\ ~Truthy(heap[req.ref].deletedAt)

\* C3: the successive stored states of each entity form a walk on Edges, and an
\* update request whose (stored state, nextState) pair is no edge is rejected
\* with 400 INVALID_TRANSITION and leaves the stored entity unchanged, under any
\* interleaving of concurrent requests.
C3_StoredStatesWalkTheEdges ==
  [][/\ \A id \in TodoIds :
          (todos[id] # 0 /\ todos'[id] # 0
             /\ heap'[todos'[id]].state # heap[todos[id]].state) =>
            <<heap[todos[id]].state, heap'[todos'[id]].state>> \in Edges
     /\ \A h \in Slots :
          (/\ Validating(handlers[h])
           /\ HasTodo(handlers[h].id)
           /\ <<Stored(handlers[h].id).state, handlers[h].nextState>> \notin Edges
           /\ handlers'[h] # handlers[h]) =>
            /\ Replies(h)
            /\ Response(h).status = 400
            /\ Response(h).code = "INVALID_TRANSITION"
            /\ heap' = heap /\ todos' = todos]_vars

\* C4: isValidTransition is true exactly on the four edges, getAllowedNextStates
\* lists exactly the states isValidTransition allows, and the update route
\* rejects a request as an invalid transition exactly when the pair it
\* validates is none of the four edges.
C4_TransitionTableIsTheFourEdges ==
  /\ \A from, to \in TodoStates :
       isValidTransition(from, to) <=> (<<from, to>> \in Edges)
  /\ \A from, to \in TodoStates :
       Includes(getAllowedNextStates(from), to) <=> isValidTransition(from, to)
  /\ \A h \in Slots :
       Validating(handlers[h]) =>
         ((PatchResponse(handlers[h]).code = "INVALID_TRANSITION")
            <=> (<<heap[handlers[h].ref].state, handlers[h].nextState>> \notin Edges))

\* the route validates a self-transition, DONE -> TODO and a valid edge
C4_Witness ==
  /\ \E h \in Slots :
       /\ Validating(handlers[h])
       /\ heap[handlers[h].ref].state = "DONE" /\ handlers[h].nextState = "TODO"
       /\ PatchResponse(handlers[h]).status = 400
  /\ \E h \in Slots :
       /\ Validating(handlers[h])
       /\ heap[handlers[h].ref].state = "DONE" /\ handlers[h].nextState = "ONGOING"
       /\ PatchResponse(handlers[h]) = NoResp

\* C5: in every reachable state the stored version of an entity is 1 plus the
\* number of accepted updates of that entity.
C5_VersionCountsAcceptedUpdates ==
  \A id \in TodoIds : HasTodo(id) => Stored(id).version = 1 + accepted[id]

\* C6: every timestamp getMonotonicISOString returns is strictly greater than
\* every one it returned before, whatever the wall clock reads, and every
\* accepted write gets an updatedAt strictly greater than that of every earlier
\* accepted write.
C6_TimestampsStrictlyIncrease ==
  /\ [](\A i, j \in DOMAIN tsLog : i < j => StrLess(tsLog[i], tsLog[j]))
  /\ [][heap' # heap => StrLess(lastWriteAt, lastWriteAt')]_vars

\* the clock first jumped to the largest reading, so that every later reading
\* repeated it or went backwards, and three writes were stamped
C6_Witness ==
  /\ Len(tsLog) >= 3
  /\ tsLog[1] = ToISOString(MaxClock)
  /\ lastWriteAt = tsLog[Len(tsLog)]

\* the cursors a sync can carry
Cursors ==
  {NoCursor} \cup {[updatedAt |-> ToISOString(t), todoId |-> id] :
                     t \in 0..MaxTs, id \in TodoIds}

\* (updatedAt, id) of the todo is strictly greater than the cursor's pair
KeyAfter(todo, cursor) ==
  \/ StrLess(cursor.updatedAt, todo.updatedAt)
  \/ cursor.updatedAt = todo.updatedAt /\ StrLess(cursor.todoId, todo.id)

\* the stored entities of the list that lie after the cursor
EntitiesAfter(listId, cursor) ==
  {ref \in {todos[id] : id \in {i \in TodoIds : todos[i] # 0}} :
     /\ heap[ref].listId = listId
     /\ cursor = NoCursor \/ KeyAfter(heap[ref], cursor)}

\* C8: getTodosForList(listId, cursor) returns exactly the stored entities of
\* that list whose (updatedAt, id) is strictly greater than the cursor's (all of
\* them without a cursor), each once, sorted ascending by (updatedAt, id).
C8_ListReturnsExactlyItsEntities ==
  \A listId \in ListIds, cursor \in Cursors :
    LET result == getTodosForList(listId, cursor) IN
    /\ {result[i] : i \in DOMAIN result} = EntitiesAfter(listId, cursor)
    /\ Len(result) = Cardinality(EntitiesAfter(listId, cursor))
    /\ \A i, j \in DOMAIN result :
         i < j => KeyAfter(heap[result[j]],
                           [updatedAt |-> heap[result[i]].updatedAt,
                            todoId |-> heap[result[i]].id])

\* C10: a create request for an id that is stored is answered 409 ALREADY_EXISTS
\* and leaves the store unchanged, and of the create requests for one id no
\* more than one is answered 201.
C10_OneCreateAnswered201 ==
  /\ [](\A id \in TodoIds : created[id] <= 1)
  /\ [][\A h \in Slots :
          (/\ handlers[h].kind = "create" /\ handlers[h].pc = "create_exists"
           /\ handlers[h].exists /\ HasTodo(handlers[h].id)
           /\ handlers'[h] # handlers[h]) =>
            /\ handlers'[h].pc = "create_check"
            /\ CreateResponse(handlers'[h]).status = 409
            /\ heap' = heap /\ todos' = todos]_vars

(***************************************************************************)
(* Properties of the sync path (checked under SpecSync).                   *)
(***************************************************************************)
\* the list's client is about to be sent the batch its sync read
Syncing(req) == req.kind = "sync" /\ req.pc = "sync_reply" /\ req.tracked

\* how often the batch sent to the request holds the todo id
TimesInBatch(req, id) ==
  Cardinality({i \in DOMAIN SyncResponse(req).body : SyncResponse(req).body[i].id = id})

\* C7: when exactly one write is accepted between the response of a sync and
\* the next sync, made with the cursor that response returned, this next sync
\* returns the written entity exactly once; and the sync after it, made with the
\* newly returned cursor and with no further write, does not return it again.
C7_DeltaSyncReturnsTheWriteOnce ==
  \A h \in Slots :
    Syncing(handlers[h]) =>
      /\ handlers[h].gap = 1 => TimesInBatch(handlers[h], handlers[h].snapLast) = 1
      /\ (handlers[h].prevGap = 1 /\ handlers[h].quiet = 0) =>
           TimesInBatch(handlers[h], handlers[h].snapLast) = 0

\* both entities are stored; the sync before this one returned the one write
\* made after its predecessor, and this sync read the store with no write since
C7_Witness ==
  \E h \in Slots :
    /\ Syncing(handlers[h])
    /\ handlers[h].prevGap = 1 /\ handlers[h].quiet = 0
    /\ \A id \in TodoIds : HasTodo(id)

\* the sync answers with an empty batch and a token denoting the position of
\* the token it was called with
SamePosition(req) ==
  /\ SyncResponse(req).body = <<>>
  /\ decodeSyncToken(SyncResponse(req).syncToken) = decodeSyncToken(req.token)

WriteIds == {<<1>>}

NextWrite ==
  \/ \E l \in ListIds : CreateList(l)
  \/ \E h \in Slots, l \in ListIds, id \in WriteIds \cup {BadId}, title \in Titles,
        createdAt \in {GoodCreatedAt, BadCreatedAt} :
       CreateStart(h, l, id, title, createdAt)
  \/ \E h \in Slots : CreateLookup(h)
  \/ \E h \in Slots, nowMs \in 0..MaxClock : CreateStore(h, nowMs)
  \/ \E h \in Slots, failing \in SUBSET Conns : CreateReply(h, failing)
  \/ \E h \in Slots, id \in WriteIds, nextState \in TodoStates,
        expectedVersion \in 1..MaxExpected :
       PatchStart(h, id, nextState, expectedVersion)
  \/ \E h \in Slots, nowMs \in 0..MaxClock : PatchApply(h, nowMs)
  \/ \E h \in Slots, failing \in SUBSET Conns : PatchReply(h, failing)

SpecWrite == Init /\ [][NextWrite]_vars

\* the sync path: one list with its syncing client next to one writer
SyncLists == {"L1"}
SyncStates == {"ONGOING", "TODO"}
MaxSyncExpected == 2

\* no create or update request is in flight
NoWriter == \A g \in Slots : handlers[g].kind \notin {"create", "patch"}

NextSync ==
  \/ \E l \in SyncLists : CreateList(l)
  \/ \E h \in Slots, l \in SyncLists : SyncStart(h, l, TRUE, syncToken[l])
  \/ \E h \in Slots : SyncList(h)
  \/ \E h \in Slots : SyncReply(h)
  \/ \E h \in Slots, l \in SyncLists, id \in TodoIds, title \in Titles :
       NoWriter /\ CreateStart(h, l, id, title, GoodCreatedAt)
  \/ \E h \in Slots : CreateLookup(h)
  \/ \E h \in Slots, nowMs \in 0..MaxClock : CreateStore(h, nowMs)
  \/ \E h \in Slots, failing \in SUBSET Conns : CreateReply(h, failing)
  \/ \E h \in Slots, id \in TodoIds, nextState \in SyncStates,
        expectedVersion \in 1..MaxSyncExpected :
       NoWriter /\ PatchStart(h, id, nextState, expectedVersion)
  \/ \E h \in Slots, nowMs \in 0..MaxClock : PatchApply(h, nowMs)
  \/ \E h \in Slots, failing \in SUBSET Conns : PatchReply(h, failing)

SpecSync == Init /\ [][NextSync]_vars

(***************************************************************************)
(* The notification path: writers next to event-stream connections.        *)
(***************************************************************************)
EventStates == {"ONGOING"}
MaxEventExpected == 2

NextEvents ==
  \/ \E l \in ListIds : CreateList(l)
  \/ \E h \in Slots, l \in ListIds, k \in Conns : EventsStart(h, l, k)
  \/ \E h \in Slots : EventsOpen(h)
  \/ \E l \in ListIds, k \in Conns : ConnClose(l, k)
  \/ \E l \in ListIds, k \in Conns : DroppedClose(l, k)
  \/ \E h \in Slots, l \in ListIds, id \in WriteIds, title \in Titles :
       CreateStart(h, l, id, title, GoodCreatedAt)
  \/ \E h \in Slots : CreateLookup(h)
  \/ \E h \in Slots : CreateStore(h, 0)
  \/ \E h \in Slots, failing \in SUBSET Conns : CreateReply(h, failing)
  \/ \E h \in Slots, id \in WriteIds, nextState \in EventStates,
        expectedVersion \in 1..MaxEventExpected :
       PatchStart(h, id, nextState, expectedVersion)
  \/ \E h \in Slots : PatchApply(h, 0)
  \/ \E h \in Slots, failing \in SUBSET Conns : PatchReply(h, failing)

SpecEvents == Init /\ [][NextEvents]_vars

\* handler request req is a create or an update
Writing(req) == req.kind \in {"create", "patch"}

\* a delta sync of the list from the start returns the entity in a state at least
\* as recent as the written object
VisibleToSync(listId, obj) ==
  \E i \in 1..Len(getTodosForList(listId, NoCursor)) :
    LET seen == heap[getTodosForList(listId, NoCursor)[i]]
    IN seen.id = obj.id /\ ~StrLess(seen.updatedAt, obj.updatedAt)

\* C11: the step that answers an accepted create or update (201, 200) writes one
\* `changed` message to every connection subscribed to the written entity's list
\* whose socket takes the write, and none to any other connection, and at that
\* step a delta sync of the list already returns the write; the step that answers
\* a rejected create or update (404, 409, 400) writes no message.
C11_AcceptedWritesSignalTheirList ==
  [][\A h \in Slots :
       (Writing(handlers[h]) /\ Replies(h)) =>
         IF Response(h).status \in {200, 201}
         THEN LET obj == Response(h).body[1]
              IN /\ \A k \in Conns :
                      signals'[k] =
                        IF k \in subscribers'[obj.listId]
                        THEN (IF signals[k] < MaxSignals THEN signals[k] + 1
                              ELSE signals[k])
                        ELSE signals[k]
                 /\ \A k \in subscribers[obj.listId] \ subscribers'[obj.listId] :
                      \A l \in ListIds : k \notin subscribers'[l]
                 /\ VisibleToSync(obj.listId, obj)
         ELSE /\ Response(h).status \in {400, 404, 409}
              /\ signals' = signals
              /\ subscribers' = subscribers]_vars

\* C11 witness: one connection per list is open, an entity of L1 is stored, and
\* only the connection of L1 has been written a `changed` message
C11_Witness ==
  /\ subscribers["L1"] = {"k1"}
  /\ subscribers["L2"] = {"k2"}
  /\ signals["k1"] = 1
  /\ signals["k2"] = 0
  /\ \E id \in TodoIds : HasTodo(id) /\ Stored(id).listId = "L1" /\ Stored(id).version = 2

(***************************************************************************)
(* The web client (apps/web).                                              *)
(*                                                                         *)
(* The client is one browser page.  Its code suspends at network calls     *)
(* (fetch) and timers (the retry backoff); the continuation runs when the  *)
(* answer arrives or the timer fires, and the code of other events runs in *)
(* between.  An `await` of a value that is already settled (an async       *)
(* function without an inner await, a syncOnce call that returns at once)  *)
(* resumes in the same microtask drain, before any other event is taken,   *)
(* so the code on both sides of it is one atomic step.  The client's state *)
(* is one record, and a step is an operator from the record before it to   *)
(* the record after it.                                                    *)
(***************************************************************************)
\* Date.parse of a timestamp string
DateParse(ts) == ts[1] * 10 + ts[2]

(***************************************************************************)
(* lib/sync/state.ts                                                       *)
(***************************************************************************)
getServerTodo(w, todoId) == w.serverState[todoId]

\* the ids with a cached copy
CachedIds(w) == {id \in TodoIds : IsTodo(w.serverState[id])}

getNextMutation(w, todoId) == Head(w.pendingMutations[todoId])
HasNextMutation(w, todoId) == w.pendingMutations[todoId] # <<>>

\* history: the watched todo has one more state enqueued
Enqueued(w, todoId, nextState) ==
  IF w.hist.watch /\ w.hist.id = todoId /\ Len(w.hist.enq) < MaxLog
  THEN [w EXCEPT !.hist.enq = Append(@, nextState)]
  ELSE w

\* history: a request for the watched todo goes out
Sent(w, todoId, nextState, expectedVersion) ==
  IF w.hist.watch /\ w.hist.id = todoId /\ Len(w.hist.log) < MaxLog
  THEN [w EXCEPT !.hist.log = Append(@, [nextState |-> nextState,
                                         expectedVersion |-> expectedVersion,
                                         status |-> 0])]
  ELSE w

\* history: the processor handles the answer to the latest request logged
Answered(w, todoId, status) ==
  IF w.hist.watch /\ w.hist.id = todoId /\ w.hist.log # <<>>
     /\ w.hist.log[Len(w.hist.log)].status = 0
  THEN [w EXCEPT !.hist.log[Len(w.hist.log)].status = status]
  ELSE w

\* enqueueMutation putting the new mutation before the ones queued
enqueueMutationAtHead(w, todoId, nextState) ==
  [Enqueued(w, todoId, nextState) EXCEPT
     !.pendingMutations[todoId] =
        <<[nextState |-> nextState, appliedAt |-> LocalNow]>> \o @,
     !.pendingKeys = @ \cup {todoId}]

\* enqueueMutation: queue.push(mutation), or a new entry with the mutation
enqueueMutation(w, todoId, nextState) ==
  [Enqueued(w, todoId, nextState) EXCEPT
     !.pendingMutations[todoId] =
        Append(@, [nextState |-> nextState, appliedAt |-> LocalNow]),
     !.pendingKeys = @ \cup {todoId}]

\* exhausted (history): the todos whose head mutation a run has given up on
\* after DEFAULT_RETRIES network failures
\* dequeueMutation: queue.shift(), and the entry deleted when nothing is left
dequeueMutation(w, todoId) ==
  [w EXCEPT !.pendingMutations[todoId] = IF @ = <<>> THEN <<>> ELSE Tail(@),
            !.pendingKeys = IF Len(w.pendingMutations[todoId]) <= 1
                            THEN @ \ {todoId} ELSE @,
            !.exhausted = @ \ {todoId}]

deletePendingMutations(w, todoId) ==
  [w EXCEPT !.pendingMutations[todoId] = <<>>, !.pendingKeys = @ \ {todoId},
            !.exhausted = @ \ {todoId}]

\* [...state.pendingMutations.keys()]
getTodoIdsWithPendingMutations(w) == w.pendingKeys

hasActiveRun(w, todoId) == todoId \in w.activeRuns
setActiveRun(w, todoId) == [w EXCEPT !.activeRuns = @ \cup {todoId}]
\* deleteActiveRun that leaves the entry in the Set
deleteActiveRunLeavingEntry(w, todoId) == w
deleteActiveRun(w, todoId) == [w EXCEPT !.activeRuns = @ \ {todoId}]

getRunGeneration(w) == w.runGeneration
cancelRunGeneration(w) == [w EXCEPT !.runGeneration = @ + 1]

\* clearSyncState leaving the active-run registry as it is
clearSyncStateKeepingRuns(w) ==
  [cancelRunGeneration(w) EXCEPT
     !.serverState = [id \in TodoIds |-> NoTodo],
     !.pendingMutations = [id \in TodoIds |-> <<>>],
     !.pendingKeys = {},
     !.exhausted = {}]

clearSyncState(w) ==
  [cancelRunGeneration(w) EXCEPT
     !.serverState = [id \in TodoIds |-> NoTodo],
     !.pendingMutations = [id \in TodoIds |-> <<>>],
     !.pendingKeys = {},
     !.activeRuns = {},
     !.exhausted = {}]

(***************************************************************************)
(* lib/sync/merge.ts                                                       *)
(***************************************************************************)
isOptimisticTodo(todo) == todo.version = 0

compareByCreatedAt(a, b) ==
  IF DateParse(a.createdAt) # DateParse(b.createdAt)
  THEN DateParse(a.createdAt) - DateParse(b.createdAt)
  ELSE IF StrLess(a.id, b.id) THEN -1 ELSE IF StrGreater(a.id, b.id) THEN 1 ELSE 0

\* isNewerThan letting the copy that arrives last win
isNewerThanAlways(incoming, existing) == TRUE

\* isNewerThan never replacing a copy the cache already holds
isNewerThanOnlyWhenAbsent(incoming, existing) == ~IsTodo(existing)

\* isNewerThan letting the cached copy win a tie of versions
isNewerThanStrictly(incoming, existing) ==
  ~IsTodo(existing) \/ incoming.version > existing.version

isNewerThan(incoming, existing) ==
  IF ~IsTodo(existing) THEN TRUE
  ELSE IF incoming.version > existing.version THEN TRUE
  ELSE IF incoming.version = existing.version
  THEN DateParse(incoming.updatedAt) >= DateParse(existing.updatedAt)
  ELSE FALSE

\* the cache after updateServerStateEntry(todo, preserveCreatedAt)
updateServerStateEntry(cache, todo, preserveCreatedAt) ==
  LET todoToStore ==
        IF Truthy(preserveCreatedAt) /\ todo.createdAt # preserveCreatedAt
        THEN [todo EXCEPT !.createdAt = preserveCreatedAt]
        ELSE todo
  IN IF isNewerThan(todoToStore, cache[todo.id])
     THEN [cache EXCEPT ![todo.id] = todoToStore]
     ELSE cache

\* deriveDisplayTodos showing the first mutation of the queue only
ApplyFirstMutation(todo, mutations) ==
  IF mutations = <<>> THEN todo
  ELSE [todo EXCEPT !.state = Head(mutations).nextState,
                    !.updatedAt = Head(mutations).appliedAt]

RECURSIVE ApplyMutations(_, _)
\* mutations.reduce(...) of deriveDisplayTodos: every mutation of the queue, in
\* order, on top of the cached todo
ApplyMutations(todo, mutations) ==
  IF mutations = <<>> THEN todo
  ELSE ApplyMutations([todo EXCEPT !.state = Head(mutations).nextState,
                                   !.updatedAt = Head(mutations).appliedAt],
                      Tail(mutations))

RECURSIVE SortByCreatedAt(_)
\* Array.prototype.sort with compareByCreatedAt, on a set of todos
SortByCreatedAt(ts) ==
  IF ts = {} THEN <<>>
  ELSE LET first == CHOOSE t \in ts : \A u \in ts : compareByCreatedAt(t, u) <= 0
       IN <<first>> \o SortByCreatedAt(ts \ {first})

RECURSIVE MergeIncoming(_, _, _)
\* step 1 of mergeTodos: the cache after the incoming todos, in their order
MergeIncoming(cache, local, incoming) ==
  IF incoming = <<>> THEN cache
  ELSE LET todo == Head(incoming)
           existing == cache[todo.id]
           optimistic == {i \in DOMAIN local :
                            isOptimisticTodo(local[i]) /\ local[i].id = todo.id}
           preserveCreatedAt ==
             IF IsTodo(existing) THEN existing.createdAt
             ELSE IF optimistic # {}
             THEN local[CHOOSE i \in optimistic : \A j \in optimistic : j <= i].createdAt
             ELSE <<>>
       IN MergeIncoming(updateServerStateEntry(cache, todo, preserveCreatedAt),
                        local, Tail(incoming))

\* mergeTodos returning the local list with the derived todos appended
DisplayOfAppending(cache, pending, local) ==
  local \o SortByCreatedAt(
             {ApplyMutations(cache[id], pending[id]) : id \in {i \in TodoIds : IsTodo(cache[i])}})

\* mergeTodos keeping every version-0 todo of the local list, confirmed or not
DisplayOfKeepingOptimistic(cache, pending, local) ==
  SortByCreatedAt(
    {ApplyMutations(cache[id], pending[id]) : id \in {i \in TodoIds : IsTodo(cache[i])}}
    \cup {local[i] : i \in {j \in DOMAIN local : isOptimisticTodo(local[j])}})

\* deriveDisplayTodos with the optimistic todos the server has not confirmed
DisplayOf(cache, pending, local) ==
  SortByCreatedAt(
    {ApplyMutations(cache[id], pending[id]) : id \in {i \in TodoIds : IsTodo(cache[i])}}
    \cup {local[i] : i \in {j \in DOMAIN local :
                              isOptimisticTodo(local[j]) /\ ~IsTodo(cache[local[j].id])}})

\* todosStore.todos = mergeTodos(todosStore.todos, incoming)
mergeTodos(w, incoming) ==
  LET cache == MergeIncoming(w.serverState, w.todos, incoming)
  IN [w EXCEPT !.serverState = cache,
               !.todos = DisplayOf(cache, w.pendingMutations, w.todos),
               !.merge = IF @.on
                         THEN [on |-> TRUE, done |-> TRUE, local |-> w.todos,
                               incoming |-> incoming, cache |-> w.serverState]
                         ELSE @]

\* updateDisplayTodos re-deriving the display list without the server's todos
updateDisplayTodosWithoutMerge(w, serverTodos) == mergeTodos(w, <<>>)

\* processor.ts
updateDisplayTodos(w, serverTodos) == mergeTodos(w, serverTodos)

(***************************************************************************)
(* lib/stores, lib/api/storage.ts                                          *)
(***************************************************************************)
setSessionExpired(w) == [w EXCEPT !.user = FALSE, !.status = "session-expired"]

resetTodos(w) == [w EXCEPT !.todos = <<>>, !.syncToken = NoToken]

setList(w, listId) == [w EXCEPT !.listId = listId, !.listError = FALSE]

\* clearList, after its storage call
clearList(w) == [w EXCEPT !.listId = NoList, !.listError = TRUE]

\* unsubscribe reports 'disconnected' to handleConnectionStatusChange
cancelEventStream(w) ==
  [w EXCEPT !.currentSubscription = NoList,
            !.previousConnectionStatus =
               IF w.currentSubscription # NoList THEN "disconnected" ELSE @]

\* subscribe reports 'connecting' before it opens the stream
connectToListEventStream(w, listId) ==
  [cancelEventStream(w) EXCEPT !.currentSubscription = listId,
                               !.previousConnectionStatus = "connecting"]

(***************************************************************************)
(* lib/sync/operations.ts                                                  *)
(***************************************************************************)
\* fetch rejected: no answer came
NetworkFailure == Resp(-1, "NETWORK_ERROR", <<>>)
\* an answer that says the user is not known
Unauthorized == Resp(401, "UNAUTHORIZED", <<>>)

isUnauthenticatedError(resp) == resp.code = "UNAUTHORIZED" /\ resp.status = 401
isNotFoundError(resp) == resp.code = "NOT_FOUND"

\* handleAuthError leaving the session as it is
handleAuthErrorWithoutExpiry(w) == clearSyncState(cancelEventStream(w))

handleAuthError(w) == setSessionExpired(clearSyncState(cancelEventStream(w)))

\* clearListState up to its `await clearList()`
clearListState(w) == resetTodos(clearSyncState(cancelEventStream(w)))

\* syncOnce up to its `await api.syncTodos(...)`, or to its return.  waiter is
\* the caller awaiting the returned promise (a run slot, -1 for joinList, 0 for
\* a `void` call)
\* syncOnce forgetting the calls made while a request is in flight
syncOnceWithoutRepeat(w, waiter, thenRestart) ==
  IF w.isSyncing THEN [w EXCEPT !.sync.repeat = TRUE]
  ELSE IF w.listId = NoList \/ ~w.user THEN w
  ELSE [w EXCEPT !.isSyncing = TRUE,
                 !.sync = [NoCall EXCEPT !.pc = "sent", !.listId = w.listId,
                                         !.token = w.syncToken, !.waiter = waiter,
                                         !.thenRestart = thenRestart,
                                         !.gen = w.runGeneration]]

syncOnce(w, waiter, thenRestart) ==
  IF w.isSyncing THEN [w EXCEPT !.syncQueued = TRUE, !.sync.repeat = TRUE]
  ELSE IF w.listId = NoList \/ ~w.user THEN w
  ELSE [w EXCEPT !.isSyncing = TRUE,
                 !.sync = [NoCall EXCEPT !.pc = "sent", !.listId = w.listId,
                                         !.token = w.syncToken, !.waiter = waiter,
                                         !.thenRestart = thenRestart,
                                         !.gen = w.runGeneration]]

\* the call put a request on the wire, so its caller stays suspended
SyncStarted(w, after) == ~w.isSyncing /\ after.isSyncing

\* syncOnce after its await, up to the end of its finally block
syncOnceResume(w) ==
  LET resp == w.sync.resp
      handled ==
        IF resp.status = 200
        THEN [mergeTodos(w, resp.body) EXCEPT !.syncToken = resp.syncToken]
        ELSE IF isUnauthenticatedError(resp) THEN handleAuthError(w)
        ELSE IF isNotFoundError(resp) THEN clearListState(w)
        ELSE w
      released == [handled EXCEPT !.isSyncing = FALSE, !.sync = NoCall]
      requeued == IF released.syncQueued
                  THEN syncOnce([released EXCEPT !.syncQueued = FALSE], 0, FALSE)
                  ELSE released
  IN IF isNotFoundError(resp) THEN clearList(requeued) ELSE requeued

(***************************************************************************)
(* lib/sync/processor.ts                                                   *)
(***************************************************************************)
canProcess(w) == w.user /\ w.listId # NoList /\ ~w.listError

isRunValid(w, runGeneration) == getRunGeneration(w) = runGeneration

\* validateMutation sending every mutation on
validateMutationAlwaysProceeding(w, todoId, mutation) == "proceed"

validateMutation(w, todoId, mutation) ==
  LET serverTodo == getServerTodo(w, todoId) IN
  IF ~IsTodo(serverTodo) \/ Truthy(serverTodo.deletedAt) THEN "done"
  ELSE IF serverTodo.state = mutation.nextState THEN "done"
  ELSE IF ~isValidTransition(serverTodo.state, mutation.nextState) THEN "conflict"
  ELSE "proceed"

\* the `.finally` of startMutationRun deleting the entry whatever the generation
EndRunUnguarded(w, r) ==
  [deleteActiveRun(w, w.runs[r].todoId) EXCEPT !.runs[r] = NoRun]

\* the `.finally` of startMutationRun, when processMutations has returned
EndRun(w, r) ==
  [(IF getRunGeneration(w) = w.runs[r].gen
    THEN deleteActiveRun(w, w.runs[r].todoId)
    ELSE w) EXCEPT !.runs[r] = NoRun]

\* executeMutation sending again the version its run sent before
executeMutationWithFirstVersion(w, r, mutation) ==
  LET serverTodo == getServerTodo(w, w.runs[r].todoId)
      version == IF w.runs[r].expectedVersion # 0
                 THEN w.runs[r].expectedVersion
                 ELSE serverTodo.version
  IN IF ~w.user \/ ~IsTodo(serverTodo) THEN EndRun(w, r)
     ELSE [Sent(w, w.runs[r].todoId, mutation.nextState, version) EXCEPT
             !.runs[r] = [@ EXCEPT !.pc = "sent",
                                   !.nextState = mutation.nextState,
                                   !.expectedVersion = version,
                                   !.resp = NoResp]]

\* executeMutation up to its `await api.updateTodoState(...)`
executeMutation(w, r, mutation) ==
  LET serverTodo == getServerTodo(w, w.runs[r].todoId) IN
  IF ~w.user \/ ~IsTodo(serverTodo) THEN EndRun(w, r)
  ELSE [Sent(w, w.runs[r].todoId, mutation.nextState, serverTodo.version) EXCEPT
          !.runs[r] = [@ EXCEPT !.pc = "sent",
                                !.nextState = mutation.nextState,
                                !.expectedVersion = serverTodo.version,
                                !.resp = NoResp]]

RECURSIVE processMutations(_, _)
\* processMutations from the head of its loop to its next suspension or return
processMutations(w, r) ==
  LET todoId == w.runs[r].todoId IN
  IF ~isRunValid(w, w.runs[r].gen) THEN EndRun(w, r)
  ELSE IF ~canProcess(w) THEN EndRun(w, r)
  ELSE IF ~HasNextMutation(w, todoId) THEN EndRun(w, r)
  ELSE IF validateMutation(w, todoId, getNextMutation(w, todoId)) # "proceed"
  THEN processMutations(updateDisplayTodos(dequeueMutation(w, todoId), <<>>), r)
  ELSE executeMutation(w, r, getNextMutation(w, todoId))

\* the lowest free run slot
FreeRun(w) == CHOOSE r \in RunSlots :
                /\ w.runs[r].pc = "none"
                /\ \A q \in RunSlots : q < r => w.runs[q].pc # "none"
FreeRuns(w) == {r \in RunSlots : w.runs[r].pc = "none"}

startMutationRun(w, todoId) ==
  IF hasActiveRun(w, todoId) THEN w
  ELSE processMutations(
         [setActiveRun(w, todoId) EXCEPT
            !.runs[FreeRun(w)] = [NoRun EXCEPT !.pc = "loop", !.todoId = todoId,
                                               !.gen = getRunGeneration(w)]],
         FreeRun(w))

RECURSIVE StartRuns(_, _)
StartRuns(w, ids) ==
  IF ids = {} THEN w
  ELSE LET first == CHOOSE id \in ids : \A other \in ids : ~StrLess(other, id)
       IN StartRuns(startMutationRun(w, first), ids \ {first})

restartAllMutationRuns(w) == StartRuns(w, getTodoIdsWithPendingMutations(w))

\* the model has a slot for every run the step may start
SlotsFor(w, ids) == Cardinality(FreeRuns(w)) >= Cardinality(ids \ w.activeRuns)

\* executeMutation's result for the answer in the run's slot
ExecutionResult(w, r) ==
  LET resp == w.runs[r].resp IN
  IF resp.status \in {200, 409}
  THEN IF ~isRunValid(w, w.runs[r].gen) THEN "cancelled"
       ELSE IF resp.status = 200 THEN "success"
       ELSE "version-conflict"
  ELSE IF isUnauthenticatedError(resp) THEN "auth-error"
  ELSE IF resp.code = "INVALID_TRANSITION" THEN "invalid-transition"
  ELSE "network-error"

\* processMutations that treats a version conflict as it treats a network
\* error: it backs off before the next attempt
HandleResultBackingOff(w, r) ==
  LET result == ExecutionResult(w, r)
      todoId == w.runs[r].todoId
      body == w.runs[r].resp.body
      reset == [Answered(w, todoId, w.runs[r].resp.status) EXCEPT
                  !.runs[r] = [@ EXCEPT !.attempt = 1, !.resp = NoResp, !.failed = 0]]
  IN IF result = "network-error"
     THEN IF w.runs[r].attempt >= DEFAULT_RETRIES
          THEN EndRun([Answered(w, todoId, w.runs[r].resp.status) EXCEPT
                         !.exhausted = @ \cup {todoId}], r)
          ELSE [Answered(w, todoId, w.runs[r].resp.status) EXCEPT
                  !.runs[r] = [@ EXCEPT !.pc = "backoff", !.resp = NoResp,
                                        !.failed = @ + 1]]
     ELSE IF result = "success"
     THEN processMutations(updateDisplayTodos(dequeueMutation(reset, todoId), body), r)
     ELSE IF result = "version-conflict"
     THEN [updateDisplayTodos(Answered(w, todoId, w.runs[r].resp.status), body) EXCEPT
             !.runs[r] = [@ EXCEPT !.pc = "backoff", !.resp = NoResp,
                                   !.failed = @ + 1]]
     ELSE IF result = "invalid-transition"
     THEN IF SyncStarted(reset, syncOnce(reset, r, FALSE))
          THEN [syncOnce(reset, r, FALSE) EXCEPT !.runs[r] = [@ EXCEPT !.pc = "syncing"]]
          ELSE processMutations(syncOnce(reset, r, FALSE), r)
     ELSE IF result = "auth-error"
     THEN EndRun(handleAuthError(reset), r)
     ELSE EndRun(reset, r)

\* processMutations after `await executeMutation(...)`, to its next suspension
\* or return
HandleResult(w, r) ==
  LET result == ExecutionResult(w, r)
      todoId == w.runs[r].todoId
      body == w.runs[r].resp.body
      reset == [Answered(w, todoId, w.runs[r].resp.status) EXCEPT
                  !.runs[r] = [@ EXCEPT !.attempt = 1, !.resp = NoResp, !.failed = 0]]
  IN IF result = "network-error"
     THEN IF w.runs[r].attempt >= DEFAULT_RETRIES
          THEN EndRun([Answered(w, todoId, w.runs[r].resp.status) EXCEPT
                         !.exhausted = @ \cup {todoId}], r)
          ELSE [Answered(w, todoId, w.runs[r].resp.status) EXCEPT
                  !.runs[r] = [@ EXCEPT !.pc = "backoff", !.resp = NoResp,
                                        !.failed = @ + 1]]
     ELSE IF result = "success"
     THEN processMutations(updateDisplayTodos(dequeueMutation(reset, todoId), body), r)
     ELSE IF result = "version-conflict"
     THEN processMutations(updateDisplayTodos(reset, body), r)
     ELSE IF result = "invalid-transition"
     THEN IF SyncStarted(reset, syncOnce(reset, r, FALSE))
          THEN [syncOnce(reset, r, FALSE) EXCEPT !.runs[r] = [@ EXCEPT !.pc = "syncing"]]
          ELSE processMutations(syncOnce(reset, r, FALSE), r)
     ELSE IF result = "auth-error"
     THEN EndRun(handleAuthError(reset), r)
     ELSE EndRun(reset, r)

(***************************************************************************)
(* The client's steps.                                                     *)
(***************************************************************************)
serverVars == <<lastMonotonicTimestampMs, lists, heap, todos, todosByList, subscribers,
                subscriberLists,
                signals, handlers, syncToken, histVars>>

\* App.svelte onMount: bootstrap(), with no list saved in storage
Bootstrap ==
  /\ web.status = "loading"
  /\ web' = [clearSyncState(web) EXCEPT !.user = TRUE, !.status = "ready"]
  /\ UNCHANGED serverVars

\* joinList(joinKey) up to `await api.joinList(...)`
JoinList(l) ==
  /\ web.user
  /\ web.actionStatus = "idle"
  /\ web.runGeneration < MaxGeneration
  /\ web' = [web EXCEPT !.actionStatus = "joining",
                        !.join = [NoCall EXCEPT !.pc = "sent", !.listId = l]]
  /\ UNCHANGED serverVars

\* joinList's finally block
JoinEnd(w) == [w EXCEPT !.actionStatus = "idle", !.join = NoCall]

\* the join route answers and joinList resumes: to `await syncOnce()`, or to
\* its end when that call returns at once or the key names no list
JoinResume ==
  /\ web.join.pc = "sent"
  /\ LET l == web.join.listId
         joined == connectToListEventStream(setList(resetTodos(clearSyncState(web)), l), l)
         synced == syncOnce(joined, -1, FALSE)
     IN web' = IF l \notin lists THEN JoinEnd(web)
               ELSE IF SyncStarted(joined, synced)
               THEN [synced EXCEPT !.join = [@ EXCEPT !.pc = "syncing"]]
               ELSE JoinEnd(synced)
  /\ UNCHANGED serverVars

\* the event stream reports `connected` after not being connected
\* (handleConnectionStatusChange), or the window reports `online`
Reconnect ==
  /\ web.currentSubscription # NoList
  /\ LET seen == [web EXCEPT !.previousConnectionStatus = "connected"]
         synced == syncOnce(seen, 0, TRUE)
     IN IF SyncStarted(seen, synced)
        THEN web' = synced
        ELSE /\ SlotsFor(synced, getTodoIdsWithPendingMutations(synced))
             /\ web' = restartAllMutationRuns(synced)
  /\ UNCHANGED serverVars

\* handleConnectionStatusChange syncing on every report of 'connected'
statusTriggersSyncAlways(w, status) == status = "connected"

\* handleConnectionStatusChange's condition for `syncOnce().finally(...)`
statusTriggersSync(w, status) ==
  status = "connected" /\ w.previousConnectionStatus # "connected"

\* handleConnectionStatusChange(status) up to the await inside syncOnce, or to
\* its end with the runs restarted when syncOnce returns at once
handleConnectionStatusChange(w, status) ==
  LET seen == [w EXCEPT !.previousConnectionStatus = status]
      synced == syncOnce(seen, 0, TRUE)
  IN IF ~statusTriggersSync(w, status) THEN seen
     ELSE IF SyncStarted(seen, synced) THEN synced
     ELSE restartAllMutationRuns(synced)

\* the event stream of the current list reports its status: 'connecting' after an
\* error, 'connected' when it opens and again when the server's `connected`
\* event arrives
StatusChange(status) ==
  /\ web.currentSubscription # NoList
  /\ SlotsFor(web, getTodoIdsWithPendingMutations(web))
  /\ web' = handleConnectionStatusChange(web, status)
  /\ UNCHANGED serverVars

\* a `changed` event arrives on the event stream (handleChanged)
Changed ==
  /\ web.currentSubscription # NoList
  /\ web' = syncOnce(web, 0, FALSE)
  /\ web' # web
  /\ UNCHANGED serverVars

\* GET /lists/:listId/todos answers the client's sync request
ServeSync ==
  /\ web.sync.pc = "sent"
  /\ web.sync.resp = NoResp
  /\ LET l == web.sync.listId
         batch == getTodosForList(l, CursorOfToken(web.sync.token))
     IN web' = [web EXCEPT !.sync.resp =
                  IF l \notin lists THEN Resp(404, "NOT_FOUND", <<>>)
                  ELSE [status |-> 200, code |-> "OK",
                        body |-> [i \in DOMAIN batch |-> heap[batch[i]]],
                        syncToken |-> NewSyncToken(batch, CursorOfToken(web.sync.token))]]
  /\ UNCHANGED serverVars

\* the sync request fails on the network, retries included
SyncFail ==
  /\ web.sync.pc = "sent"
  /\ web.sync.resp = NoResp
  /\ web' = [web EXCEPT !.sync.resp = NetworkFailure]
  /\ UNCHANGED serverVars

\* the sync request is answered 401
SyncUnauthorized ==
  /\ web.sync.pc = "sent"
  /\ web.sync.resp = NoResp
  /\ web' = [web EXCEPT !.sync.resp = Unauthorized]
  /\ UNCHANGED serverVars

\* syncOnce resumes with the answer; then the caller awaiting it resumes
SyncResume ==
  /\ web.sync.pc = "sent"
  /\ web.sync.resp # NoResp
  /\ LET waiter == web.sync.waiter
         thenRestart == web.sync.thenRestart
         resumed == syncOnceResume(web)
     IN IF waiter \in RunSlots
        THEN web' = processMutations(resumed, waiter)
        ELSE IF waiter = -1
        THEN web' = JoinEnd(resumed)
        ELSE IF thenRestart
        THEN /\ SlotsFor(resumed, getTodoIdsWithPendingMutations(resumed))
             /\ web' = restartAllMutationRuns(resumed)
        ELSE web' = resumed
  /\ UNCHANGED serverVars

\* the todo the client shows before the server has confirmed it
OptimisticTodo(listId, todoId, title) ==
  [id |-> todoId, listId |-> listId, title |-> title, state |-> "TODO",
   createdAt |-> LocalNow, updatedAt |-> LocalNow, version |-> 0,
   deletedAt |-> NoDeletedAt]

\* the todo is on the display list
Displayed(w, todoId) == \E i \in DOMAIN w.todos : w.todos[i].id = todoId

\* createTodo(title) up to `await api.createTodo(...)`; todoId is the fresh UUID
ClientCreateTodo(todoId, title) ==
  /\ web.listId # NoList
  /\ web.user
  /\ web.create.pc = "none"
  /\ ~HasTodo(todoId)
  /\ ~Displayed(web, todoId)
  /\ ~IsTodo(web.serverState[todoId])
  /\ \A r \in RunSlots : web.runs[r].pc = "none" \/ web.runs[r].todoId # todoId
  /\ web' = [web EXCEPT !.todos = Append(@, OptimisticTodo(web.listId, todoId, title)),
                        !.create = [NoCall EXCEPT !.pc = "sent", !.listId = web.listId,
                                                  !.id = todoId,
                                                  !.gen = web.runGeneration]]
  /\ UNCHANGED serverVars

\* createTodo resumes with the answer
ClientCreateResume ==
  /\ web.create.pc = "sent"
  /\ web.create.resp # NoResp
  /\ LET resp == web.create.resp
         todoId == web.create.id
         done == [web EXCEPT !.create = NoCall]
     IN web' = IF resp.status = 201 THEN mergeTodos(done, resp.body)
               ELSE IF isUnauthenticatedError(resp) THEN handleAuthError(done)
               ELSE [deletePendingMutations(done, todoId) EXCEPT
                       !.todos = SelectSeq(@, LAMBDA t : t.id # todoId)]
  /\ UNCHANGED serverVars

\* updateTodoState(todoId, nextState): the user changes a displayed todo
UpdateTodoState(todoId, nextState) ==
  /\ Displayed(web, todoId)
  /\ Len(web.pendingMutations[todoId]) < MaxQueue
  /\ SlotsFor(web, {todoId})
  /\ LET queued == enqueueMutation(web, todoId, nextState)
         shown == [queued EXCEPT !.todos =
                     [i \in DOMAIN @ |->
                        IF @[i].id = todoId
                        THEN [@[i] EXCEPT !.state = nextState, !.updatedAt = LocalNow]
                        ELSE @[i]]]
     IN web' = startMutationRun(shown, todoId)
  /\ UNCHANGED serverVars

\* the run's request fails on the network
UpdateFail(r) ==
  /\ web.runs[r].pc = "sent"
  /\ web.runs[r].resp = NoResp
  /\ web' = [web EXCEPT !.runs[r].resp = NetworkFailure]
  /\ UNCHANGED serverVars

\* the run's request is answered 401
UpdateUnauthorized(r) ==
  /\ web.runs[r].pc = "sent"
  /\ web.runs[r].resp = NoResp
  /\ web' = [web EXCEPT !.runs[r].resp = Unauthorized]
  /\ UNCHANGED serverVars

\* the answer arrives: executeMutation and processMutations resume
RunResume(r) ==
  /\ web.runs[r].pc = "sent"
  /\ web.runs[r].resp # NoResp
  /\ web' = HandleResult(web, r)
  /\ UNCHANGED serverVars

\* the backoff timer fires and the loop goes on without counting the attempt
BackoffDoneWithoutCounting(r) ==
  /\ web.runs[r].pc = "backoff"
  /\ web' = processMutations([web EXCEPT !.runs[r] = [@ EXCEPT !.pc = "loop"]], r)
  /\ UNCHANGED serverVars

\* the backoff timer fires
BackoffDone(r) ==
  /\ web.runs[r].pc = "backoff"
  /\ web' = processMutations([web EXCEPT !.runs[r] = [@ EXCEPT !.attempt = @ + 1,
                                                               !.pc = "loop"]], r)
  /\ UNCHANGED serverVars

(***************************************************************************)
(* The server answering the client, a route at a step (the wall clock      *)
(* reads 0, so every stamp is the monotonic bump), and the other clients   *)
(* of the server.                                                          *)
(***************************************************************************)
\* largest value the monotonic clock may reach while the web client runs
MaxWebTs == 5

\* the update route's request for a state change
PatchRequest(todoId, nextState, expectedVersion) ==
  [Idle EXCEPT !.kind = "patch", !.pc = "patch_apply", !.id = todoId,
               !.nextState = nextState, !.expectedVersion = expectedVersion,
               !.ref = todos[todoId]]

\* PATCH /todos/:todoId/state as one step: the answer, and the store after it
PatchRoute(todoId, nextState, expectedVersion) ==
  LET req == PatchRequest(todoId, nextState, expectedVersion)
      cas == compareAndSwapTodo(todoId, expectedVersion,
               [state |-> nextState, updatedAt |-> getMonotonicISOString(0)])
  IN IF PatchResponse(req) # NoResp
     THEN [resp |-> PatchResponse(req), heap |-> heap, stamped |-> FALSE]
     ELSE [resp |-> IF cas.reason = "conflict"
                    THEN Resp(409, "VERSION_CONFLICT", <<cas.heap[cas.ref]>>)
                    ELSE Resp(200, "OK", <<cas.heap[cas.ref]>>),
           heap |-> cas.heap, stamped |-> TRUE]

\* the store and the clock after the update route
PatchRouteApplied(route) ==
  /\ route.stamped => lastMonotonicTimestampMs < MaxWebTs
  /\ lastMonotonicTimestampMs' =
       IF route.stamped THEN NextMonotonicMs(0) ELSE lastMonotonicTimestampMs
  /\ heap' = route.heap
  /\ UNCHANGED <<lists, todos, todosByList, subscribers, subscriberLists, signals, handlers, syncToken,
                 histVars>>

\* the update route answers the run's request
ServeUpdate(r) ==
  /\ web.runs[r].pc = "sent"
  /\ web.runs[r].resp = NoResp
  /\ LET route == PatchRoute(web.runs[r].todoId, web.runs[r].nextState,
                             web.runs[r].expectedVersion)
     IN /\ PatchRouteApplied(route)
        /\ web' = [web EXCEPT !.runs[r].resp = route.resp]

\* another client's state change is accepted
OtherClientUpdate(todoId, nextState) ==
  /\ HasTodo(todoId)
  /\ LET route == PatchRoute(todoId, nextState, Stored(todoId).version)
     IN /\ route.resp.status = 200
        /\ PatchRouteApplied(route)
  /\ UNCHANGED web

\* POST /lists/:listId/todos as one step, for a request the route accepts
CreateRouteStores(listId, todoId, title, createdAt) ==
  /\ listId \in lists
  /\ ~HasTodo(todoId)
  /\ lastMonotonicTimestampMs < MaxWebTs
  /\ Len(heap) < MaxObjs
  /\ lastMonotonicTimestampMs' = NextMonotonicMs(0)
  /\ heap' = Append(heap, NewTodo([id |-> todoId, listId |-> listId, title |-> title,
                                   createdAt |-> createdAt], getMonotonicISOString(0)))
  /\ todos' = [todos EXCEPT ![todoId] = Len(heap) + 1]
  /\ todosByList' = [todosByList EXCEPT ![listId] = @ \cup {todoId}]
  /\ UNCHANGED <<lists, subscribers, subscriberLists, signals, handlers, syncToken, histVars>>

\* the create route answers the client's request
ServeCreate ==
  /\ web.create.pc = "sent"
  /\ web.create.resp = NoResp
  /\ LET listId == web.create.listId
         todoId == web.create.id
     IN IF listId \notin lists
        THEN /\ web' = [web EXCEPT !.create.resp = Resp(404, "NOT_FOUND", <<>>)]
             /\ UNCHANGED serverVars
        ELSE IF HasTodo(todoId)
        THEN /\ web' = [web EXCEPT !.create.resp = Resp(409, "ALREADY_EXISTS", <<>>)]
             /\ UNCHANGED serverVars
        ELSE /\ CreateRouteStores(listId, todoId, "t1", LocalNow)
             /\ web' = [web EXCEPT !.create.resp = Resp(201, "CREATED", <<heap'[Len(heap')]>>)]

\* another client creates a todo
OtherClientCreate(listId, todoId) ==
  /\ ~Displayed(web, todoId)
  /\ web.create.id # todoId
  /\ CreateRouteStores(listId, todoId, "t1", GoodCreatedAt)
  /\ UNCHANGED web

\* the server process restarts: the in-memory store is empty again
ServerRestart ==
  /\ lists # {}
  /\ lists' = {}
  /\ heap' = <<>>
  /\ todos' = [id \in TodoIds |-> 0]
  /\ todosByList' = [l \in ListIds |-> {}]
  /\ UNCHANGED <<lastMonotonicTimestampMs, subscribers, subscriberLists, signals, handlers, syncToken,
                 histVars, web>>

(***************************************************************************)
(* The client's mutation runs against the server: one list, the client     *)
(* joining and rejoining it, users changing todos here and elsewhere.      *)
(***************************************************************************)
RunLists == {"L1"}
RunIds == {<<1>>}

NextRun ==
  \/ \E l \in RunLists : CreateList(l)
  \/ \E l \in RunLists, id \in RunIds : OtherClientCreate(l, id)
  \/ \E id \in RunIds, nextState \in TodoStates : OtherClientUpdate(id, nextState)
  \/ Bootstrap
  \/ \E l \in RunLists : JoinList(l)
  \/ JoinResume
  \/ Reconnect
  \/ Changed
  \/ ServeSync
  \/ SyncResume
  \/ \E id \in RunIds, nextState \in TodoStates : UpdateTodoState(id, nextState)
  \/ \E r \in RunSlots : ServeUpdate(r)
  \/ \E r \in RunSlots : RunResume(r)

SpecRun == Init /\ [][NextRun]_vars

\* the run in slot r has not returned
Alive(r) == web.runs[r].pc # "none"
\* the run in slot r has a state-change request on the wire
InFlight(r) == web.runs[r].pc = "sent" /\ web.runs[r].resp = NoResp

\* C12, requests only: two requests of one client for one entity are never on
\* the wire together
C12_OneRequestPerEntity ==
  \A r, q \in RunSlots :
    (r # q /\ InFlight(r) /\ InFlight(q)) => web.runs[r].todoId # web.runs[q].todoId

(***************************************************************************)
(* Scenario C: the runs of SpecRun, with an observer that picks a cached   *)
(* todo at rest and follows what the client enqueues and sends for it.     *)
(***************************************************************************)
\* the observer starts watching a cached todo that has nothing queued or running
Watch(todoId) ==
  /\ ~web.hist.watch
  /\ IsTodo(web.serverState[todoId])
  /\ web.pendingMutations[todoId] = <<>>
  /\ \A r \in RunSlots : ~(web.runs[r].pc # "none" /\ web.runs[r].todoId = todoId)
  /\ web' = [web EXCEPT !.hist = [NoHistory EXCEPT !.watch = TRUE, !.id = todoId,
                                                   !.gen = web.runGeneration,
                                                   !.base = web.serverState[todoId].version,
                                                   !.state = web.serverState[todoId].state]]
  /\ UNCHANGED serverVars

NextScenario ==
  \/ \E l \in RunLists : CreateList(l)
  \/ \E l \in RunLists, id \in RunIds : OtherClientCreate(l, id)
  \/ Bootstrap
  \/ \E l \in RunLists : JoinList(l)
  \/ JoinResume
  \/ ServeSync
  \/ SyncResume
  \/ \E id \in RunIds : Watch(id)
  \/ \E id \in RunIds, nextState \in TodoStates : UpdateTodoState(id, nextState)
  \/ \E r \in RunSlots : ServeUpdate(r)
  \/ \E r \in RunSlots : RunResume(r)

SpecScenario == Init /\ [][NextScenario]_vars

\* the answers logged with status 200
Successes(log) == Cardinality({i \in DOMAIN log : log[i].status = 200})

\* scenario C so far: since the observer started, the client has enqueued ONGOING
\* and then DONE for the todo and nothing else, the scope was not cleared, and
\* every write the server has taken for the todo since is an answered request
\* of the watched runs (the cached copy was current, no one else wrote)
ScenarioC ==
  /\ web.hist.watch
  /\ web.hist.enq = <<"ONGOING", "DONE">>
  /\ web.hist.state \in {"TODO", "DONE"}
  /\ web.runGeneration = web.hist.gen
  /\ HasTodo(web.hist.id)
  /\ Stored(web.hist.id).version = web.hist.base + Successes(web.hist.log)

\* the processor is at rest for the todo
AtRest(todoId) ==
  /\ todoId \notin web.activeRuns
  /\ \A r \in RunSlots : ~(web.runs[r].pc # "none" /\ web.runs[r].todoId = todoId)

NewRequest(r) ==
  /\ web'.runs[r].pc = "sent"
  /\ web'.runs[r].resp = NoResp
  /\ ~InFlight(r)

\* validateMutation lets the head of the todo's queue through, in client state w
HeadProceeds(w, todoId) ==
  /\ w.pendingMutations[todoId] # <<>>
  /\ IsTodo(w.serverState[todoId])
  /\ ~Truthy(w.serverState[todoId].deletedAt)
  /\ w.serverState[todoId].state # w.pendingMutations[todoId][1].nextState
  /\ isValidTransition(w.serverState[todoId].state, w.pendingMutations[todoId][1].nextState)

\* no run of the current generation is alive for the todo, in client state w
Unattended(w, todoId) ==
  \A r \in RunSlots :
    ~(w.runs[r].pc # "none" /\ w.runs[r].todoId = todoId /\ w.runs[r].gen = w.runGeneration)

NextConflict ==
  \/ \E l \in RunLists : CreateList(l)
  \/ \E l \in RunLists, id \in RunIds : OtherClientCreate(l, id)
  \/ \E id \in RunIds, nextState \in TodoStates : OtherClientUpdate(id, nextState)
  \/ Bootstrap
  \/ \E l \in RunLists : JoinList(l)
  \/ JoinResume
  \/ Changed
  \/ ServeSync
  \/ SyncResume
  \/ \E id \in RunIds : Watch(id)
  \/ \E id \in RunIds : UpdateTodoState(id, "ONGOING")
  \/ \E r \in RunSlots : ServeUpdate(r)
  \/ \E r \in RunSlots : RunResume(r)

SpecConflict == Init /\ [][NextConflict]_vars

\* the step in which the run in slot r, still of the current generation, handles
\* an answer with this status
Handles(r, status) ==
  /\ web.runs[r].pc = "sent"
  /\ web.runs[r].resp.status = status
  /\ web.runs[r].gen = web.runGeneration
  /\ web'.runs[r] # web.runs[r]

\* validateMutation lets a mutation to nextState through against this cached copy
Proceeds(todo, nextState) ==
  /\ IsTodo(todo)
  /\ ~Truthy(todo.deletedAt)
  /\ todo.state # nextState
  /\ isValidTransition(todo.state, nextState)

\* the queue after the step is the queue before it without one or more heads
HeadsRemoved(todoId) ==
  \E k \in 1..Len(web.pendingMutations[todoId]) :
    web'.pendingMutations[todoId] =
      SubSeq(web.pendingMutations[todoId], k + 1, Len(web.pendingMutations[todoId]))

NextRefusal ==
  \/ \E l \in RunLists : CreateList(l)
  \/ \E l \in RunLists, id \in RunIds : OtherClientCreate(l, id)
  \/ \E id \in RunIds : OtherClientUpdate(id, "ONGOING")
  \/ ServerRestart
  \/ Bootstrap
  \/ \E l \in RunLists : JoinList(l)
  \/ JoinResume
  \/ ServeSync
  \/ SyncResume
  \/ \E id \in RunIds : UpdateTodoState(id, "ONGOING")
  \/ \E r \in RunSlots : ServeUpdate(r)
  \/ \E r \in RunSlots : RunResume(r)
  \/ \E r \in RunSlots : BackoffDone(r)

SpecRefusal == Init /\ [][NextRefusal]_vars

\* C16: the step that handles a 404 or a 400 answer to a state-change request
\* removes the mutation from the head of its queue and starts no backoff, and
\* no later step sends it.
C16_RefusalIsTerminal ==
  [][\A r \in RunSlots :
       (Handles(r, 404) \/ Handles(r, 400)) =>
         /\ HeadsRemoved(web.runs[r].todoId)
         /\ web'.runs[r].pc # "backoff"]_vars

(***************************************************************************)
(* Retries: the runs on a network that loses requests.                     *)
(***************************************************************************)
NextRetry ==
  \/ \E l \in RunLists : CreateList(l)
  \/ \E l \in RunLists, id \in RunIds : OtherClientCreate(l, id)
  \/ Bootstrap
  \/ \E l \in RunLists : JoinList(l)
  \/ JoinResume
  \/ Reconnect
  \/ ServeSync
  \/ SyncResume
  \/ \E id \in RunIds : UpdateTodoState(id, "ONGOING")
  \/ \E r \in RunSlots : ServeUpdate(r)
  \/ \E r \in RunSlots : UpdateFail(r)
  \/ \E r \in RunSlots : RunResume(r)
  \/ \E r \in RunSlots : BackoffDone(r)

SpecRetry == Init /\ [][NextRetry]_vars

\* the step in which the run in slot r, still of the current generation, resumes
\* from its backoff
BackoffEnds(r) ==
  /\ web.runs[r].pc = "backoff"
  /\ web.runs[r].gen = web.runGeneration
  /\ web'.runs[r] # web.runs[r]

NextAuth ==
  \/ \E l \in RunLists : CreateList(l)
  \/ \E l \in RunLists, id \in TodoIds : OtherClientCreate(l, id)
  \/ Bootstrap
  \/ \E l \in RunLists : JoinList(l)
  \/ JoinResume
  \/ ServeSync
  \/ SyncResume
  \/ \E id \in TodoIds : UpdateTodoState(id, "ONGOING")
  \/ \E r \in RunSlots : ServeUpdate(r)
  \/ \E r \in RunSlots : UpdateUnauthorized(r)
  \/ \E r \in RunSlots : RunResume(r)

SpecAuth == Init /\ [][NextAuth]_vars

\* C18: the step that handles a 401 answer to a state-change request ends the
\* run, leaves the session 'session-expired' with no user, the event stream
\* cancelled, the cache, the queues and the active runs empty and the generation
\* advanced; and once the session is expired no step puts a state-change request
\* on the wire.
C18_UnauthorizedExpiresSession ==
  [][/\ \A r \in RunSlots :
          Handles(r, 401) =>
            /\ web'.runs[r] = NoRun
            /\ ~web'.user
            /\ web'.status = "session-expired"
            /\ web'.currentSubscription = NoList
            /\ web'.serverState = [id \in TodoIds |-> NoTodo]
            /\ web'.pendingMutations = [id \in TodoIds |-> <<>>]
            /\ web'.activeRuns = {}
            /\ web'.runGeneration > web.runGeneration
     /\ web.status = "session-expired" =>
          /\ \A r \in RunSlots : ~NewRequest(r)
          /\ web'.status = "session-expired"
          /\ ~web'.user]_vars

\* C18 witness: the session has expired while the run for another todo still
\* has its request on the wire
C18_Witness ==
  /\ web.status = "session-expired"
  /\ \E r \in RunSlots : web.runs[r].pc = "sent"
  /\ Len(web.todos) = 2

\* a step of the run in slot r, which was started under an earlier generation
\* and is suspended at its request or its backoff
StaleStep(r) ==
  /\ web.runs[r].pc \in {"sent", "backoff"}
  /\ web.runs[r].gen # web.runGeneration
  /\ web'.runs[r] # web.runs[r]

\* C19: a step of a run started under an earlier generation changes nothing of
\* the client but the run itself: no queue, no cached entity, no displayed todo,
\* no sync, no session state.
C19_CancelledRunsHaveNoEffect ==
  [][\A r \in RunSlots :
       StaleStep(r) => [web' EXCEPT !.runs[r] = web.runs[r]] = web]_vars

(***************************************************************************)
(* Scopes: the client switching between two lists while its syncs and its  *)
(* creates are on the wire.                                                *)
(***************************************************************************)
NextScope ==
  \/ \E l \in ListIds : CreateList(l)
  \/ \E l \in ListIds, id \in TodoIds : OtherClientCreate(l, id)
  \/ Bootstrap
  \/ \E l \in ListIds : JoinList(l)
  \/ JoinResume
  \/ Changed
  \/ ServeSync
  \/ SyncResume
  \/ \E id \in TodoIds, title \in Titles : ClientCreateTodo(id, title)
  \/ ServeCreate
  \/ ClientCreateResume

SpecScope == Init /\ [][NextScope]_vars

\* the step in which syncOnce resumes with a 200 to a request it made before
\* clearSyncState was last called
StaleSyncResumes ==
  /\ web.sync.pc = "sent"
  /\ web.sync.resp.status = 200
  /\ web.sync.gen # web.runGeneration
  /\ web'.sync # web.sync

\* the step in which createTodo resumes with a 201 to a request it made before
\* clearSyncState was last called
StaleCreateResumes ==
  /\ web.create.pc = "sent"
  /\ web.create.resp.status = 201
  /\ web.create.gen # web.runGeneration
  /\ web'.create # web.create

\* the step leaves the cache and the cursor as they are and shows no todo of the
\* answer that was not shown before
Discarded(body) ==
  /\ web'.serverState = web.serverState
  /\ web'.syncToken = web.syncToken
  /\ \A i \in DOMAIN body : Displayed(web', body[i].id) => Displayed(web, body[i].id)

\* C20: a delta-sync or create-entity answer that resolves after clearSyncState
\* was called puts nothing into the cache or onto the display list and leaves
\* the sync cursor as it is.
C20_StaleResponsesDiscarded ==
  [][/\ StaleSyncResumes => Discarded(web.sync.resp.body)
     /\ StaleCreateResumes => Discarded(web.create.resp.body)]_vars

\* C20 for the create-entity answer alone
C20_StaleCreateDiscarded ==
  [][StaleCreateResumes => Discarded(web.create.resp.body)]_vars

(***************************************************************************)
(* Single flight: syncOnce called from the event stream, from joinList and *)
(* from reconnects while the server restarts, the network loses requests   *)
(* and a gateway may answer 401.                                           *)
(***************************************************************************)
NextFlight ==
  \/ \E l \in RunLists : CreateList(l)
  \/ \E l \in RunLists, id \in RunIds : OtherClientCreate(l, id)
  \/ ServerRestart
  \/ Bootstrap
  \/ \E l \in RunLists : JoinList(l)
  \/ JoinResume
  \/ Reconnect
  \/ Changed
  \/ ServeSync
  \/ SyncFail
  \/ SyncUnauthorized
  \/ SyncResume

SpecFlight == Init /\ [][NextFlight]_vars

\* a sync request is on the wire or its answer has not been handled yet
SyncInFlight(w) == w.sync.pc = "sent"

\* the step in which syncOnce resumes from `await api.syncTodos`
SyncSettles ==
  /\ SyncInFlight(web)
  /\ web.sync.resp # NoResp
  /\ [web'.sync EXCEPT !.repeat = web.sync.repeat] # web.sync

\* the step puts a sync request on the wire
NewSyncRequest ==
  /\ SyncInFlight(web') /\ web'.sync.resp = NoResp
  /\ ~(SyncInFlight(web) /\ web.sync.resp = NoResp)

\* isSyncing is set exactly while a request is in flight, and a repeat is
\* queued exactly when syncOnce was called meanwhile
SingleFlight ==
  /\ web.isSyncing <=> SyncInFlight(web)
  /\ web.syncQueued => web.isSyncing
  /\ web.syncQueued <=> web.sync.repeat

\* C21 (as the code has it): a sync request goes out only when none is in
\* flight; when a request settles, with success or with any error, the calls
\* made while it was in flight lead to exactly one further call of syncOnce,
\* which sends one request if the client still has a user and a list and none
\* otherwise; without such calls no request follows.
C21_SingleFlight ==
  [][/\ SingleFlight /\ SingleFlight'
     /\ NewSyncRequest => (~SyncInFlight(web) \/ SyncSettles)
     /\ SyncSettles =>
          /\ ~web'.syncQueued /\ ~web'.sync.repeat
          /\ NewSyncRequest <=>
               (web.sync.repeat /\ web'.user /\ web.listId # NoList)]_vars

\* the repeat request is on the wire after the request before it was answered
\* 404 and the list was cleared
C21_Witness ==
  /\ SyncInFlight(web) /\ web.sync.resp = NoResp
  /\ web.listId = NoList /\ web.listError

\* C21 (as stated): whatever the outcome of the request in flight, the calls
\* made meanwhile result in one further sync request.
C21_RepeatAlwaysSent ==
  [][(SyncSettles /\ web.sync.repeat) => NewSyncRequest]_vars

(***************************************************************************)
(* Reconnects: the event stream of the joined list reporting its status    *)
(* while runs retry on a network that loses requests.                      *)
(***************************************************************************)
ReportedStatuses == {"connecting", "connected"}

NextReconnect ==
  \/ \E l \in RunLists : CreateList(l)
  \/ \E l \in RunLists, id \in RunIds : OtherClientCreate(l, id)
  \/ Bootstrap
  \/ \E l \in RunLists : JoinList(l)
  \/ JoinResume
  \/ \E status \in ReportedStatuses : StatusChange(status)
  \/ ServeSync
  \/ SyncFail
  \/ SyncResume
  \/ \E id \in RunIds : UpdateTodoState(id, "ONGOING")
  \/ \E r \in RunSlots : ServeUpdate(r)
  \/ \E r \in RunSlots : UpdateFail(r)
  \/ \E r \in RunSlots : RunResume(r)
  \/ \E r \in RunSlots : BackoffDone(r)

SpecReconnect == Init /\ [][NextReconnect]_vars

\* the step in which the status becomes 'connected'
BecomesConnected ==
  /\ web.previousConnectionStatus # "connected"
  /\ web'.previousConnectionStatus = "connected"

\* after the step every todo with a queued mutation has a run of the current
\* generation, and the runs started by the step have sent their request
Restarted ==
  \A id \in TodoIds :
    web'.pendingMutations[id] # <<>> =>
      /\ hasActiveRun(web', id)
      /\ \E r \in RunSlots :
           /\ web'.runs[r].todoId = id
           /\ web'.runs[r].pc # "none"
           /\ web'.runs[r].gen = web'.runGeneration
           /\ web.runs[r].pc = "none" => web'.runs[r].pc = "sent"

\* C22: when the status becomes 'connected', syncOnce is called once: it sends a
\* request, or queues a repeat when one is in flight; when that call settles -
\* at once if it queued, else when its request is answered or fails - a run is
\* started for every todo with a queued mutation and no active run.  A report of
\* 'connected' while the status is 'connected' changes nothing.
C22_ReconnectSyncsAndRestarts ==
  [][/\ BecomesConnected =>
          IF web.isSyncing
          THEN web'.syncQueued /\ web'.sync.repeat /\ Restarted
          ELSE NewSyncRequest /\ web'.sync.thenRestart
     /\ (SyncSettles /\ web.sync.thenRestart) => Restarted
     /\ (web.currentSubscription # NoList /\ web.previousConnectionStatus = "connected")
          => handleConnectionStatusChange(web, "connected") = web]_vars

\* a mutation a run gave up on after DEFAULT_RETRIES failures is on the wire
\* again: no later intent has been queued, so the run was started by the restart
C22_Witness ==
  \E r \in RunSlots :
    LET id == web.runs[r].todoId IN
    /\ web.runs[r].pc = "sent" /\ web.runs[r].resp = NoResp
    /\ web.runs[r].gen = web.runGeneration
    /\ id \in web.exhausted
    /\ Len(web.pendingMutations[id]) = 1
    /\ web.previousConnectionStatus = "connected"

(***************************************************************************)
(* mergeTodos as a function: a cache, queues and a display list drawn from *)
(* bounded sets, and a sync answer about to be merged into them.           *)
(***************************************************************************)
MaxBatch == 2
MergeVersions == 1..2
MergeStamps == {<<0, 1>>, <<0, 2>>}
\* the createdAt of todos the user has created and the server has not confirmed
OptimisticStamps == {<<0, 0>>, <<0, 3>>}
MergeList == "L1"

MergeTodo(id, state, version, createdAt, updatedAt) ==
  [id |-> id, listId |-> MergeList, title |-> "t1", state |-> state,
   createdAt |-> createdAt, updatedAt |-> updatedAt, version |-> version,
   deletedAt |-> NoDeletedAt]

\* what the server may send
IncomingTodos ==
  {MergeTodo(id, "ONGOING", v, c, u) :
     id \in TodoIds, v \in MergeVersions, c \in MergeStamps, u \in MergeStamps}

Batches ==
  UNION {[1..n -> IncomingTodos] : n \in 0..MaxBatch}

\* the caches: every copy of the first todo, two copies of the second
MergeCaches ==
  {[id \in TodoIds |-> IF id = <<1>> THEN a ELSE b] :
     a \in {NoTodo} \cup {MergeTodo(<<1>>, "TODO", v, c, u) :
                            v \in MergeVersions, c \in MergeStamps, u \in MergeStamps},
     b \in {NoTodo} \cup {MergeTodo(<<2>>, "TODO", 1, c, <<0, 1>>) : c \in MergeStamps}}

MergeQueues ==
  {[id \in TodoIds |-> IF id = <<1>> THEN q ELSE <<>>] :
     q \in {<<>>,
            <<[nextState |-> "DONE", appliedAt |-> LocalNow]>>,
            <<[nextState |-> "DONE", appliedAt |-> LocalNow],
              [nextState |-> "TODO", appliedAt |-> LocalNow]>>}}

\* the todos created here and not confirmed: none, or one with an id the cache
\* does not hold
OptimisticLists(cache) ==
  {<<>>} \cup {<<[OptimisticTodo(MergeList, id, "t1") EXCEPT !.createdAt = c]>> :
                 id \in {i \in TodoIds : ~IsTodo(cache[i])}, c \in OptimisticStamps}

\* the display lists: the derived list, or the derived list of the cache with the
\* new todo appended by createTodo
LocalLists(cache, queues) ==
  UNION {{DisplayOf(cache, queues, opt), DisplayOf(cache, queues, <<>>) \o opt} :
           opt \in OptimisticLists(cache)}

\* the client with a sync answer about to be merged
MergeState(cache, queues, local, batch) ==
  [WebInit EXCEPT !.user = TRUE, !.status = "ready", !.listId = MergeList,
                  !.currentSubscription = MergeList,
                  !.previousConnectionStatus = "connected",
                  !.runGeneration = 1,
                  !.serverState = cache, !.pendingMutations = queues,
                  !.pendingKeys = {id \in TodoIds : queues[id] # <<>>},
                  !.todos = local,
                  !.isSyncing = TRUE,
                  !.sync = [NoCall EXCEPT !.pc = "sent", !.listId = MergeList,
                                          !.gen = 1,
                                          !.resp = [status |-> 200, code |-> "OK",
                                                    body |-> batch,
                                                    syncToken |-> NoToken]],
                  !.merge = [NoMerge EXCEPT !.on = TRUE]]

InitMerge ==
  /\ lastMonotonicTimestampMs = 0
  /\ lists = {MergeList}
  /\ heap = <<>>
  /\ todos = [id \in TodoIds |-> 0]
  /\ todosByList = [l \in ListIds |-> {}]
  /\ subscribers = [l \in ListIds |-> {}]
  /\ subscriberLists = {}
  /\ handlers = [h \in Slots |-> Idle]
  /\ syncToken = [l \in ListIds |-> NoToken]
  /\ tsLog = <<>>
  /\ lastWriteAt = <<>>
  /\ lastWrite = [l \in ListIds |-> <<>>]
  /\ accepted = [id \in TodoIds |-> 0]
  /\ created = [id \in TodoIds |-> 0]
  /\ race = <<>>
  /\ syncMon = [l \in ListIds |-> NoSync]
  /\ signals = [k \in Conns |-> 0]
  /\ \E cache \in MergeCaches, queues \in MergeQueues, batch \in Batches :
       \E local \in LocalLists(cache, queues) :
         web = MergeState(cache, queues, local, batch)

NextMerge == SyncResume

SpecMerge == InitMerge /\ [][NextMerge]_vars

\* the merge whose history the state holds
Merged == web.merge.done
MergedCache == web.merge.cache
MergedLocal == web.merge.local
MergedBatch == web.merge.incoming

\* the supersede rule as the specification words it
Supersedes(incoming, cached) ==
  \/ ~IsTodo(cached)
  \/ incoming.version > cached.version
  \/ /\ incoming.version = cached.version
     /\ DateParse(incoming.updatedAt) >= DateParse(cached.updatedAt)

\* a cache entry without its createdAt
WithoutCreatedAt(todo) == IF IsTodo(todo) THEN [todo EXCEPT !.createdAt = <<>>] ELSE todo

RECURSIVE SupersedeAll(_, _)
\* the cache, createdAt aside, after the rule has been applied to each todo of
\* the batch in turn
SupersedeAll(cache, batch) ==
  IF batch = <<>> THEN [id \in TodoIds |-> WithoutCreatedAt(cache[id])]
  ELSE LET todo == Head(batch)
       IN SupersedeAll(IF Supersedes(todo, cache[todo.id])
                       THEN [cache EXCEPT ![todo.id] = todo]
                       ELSE cache,
                       Tail(batch))

\* C23: mergeTodos replaces the cache entry of an incoming todo iff there is no
\* cached copy, or the incoming version is greater, or the versions are equal and
\* the incoming updatedAt is not earlier; otherwise the todo is discarded and the
\* cache is left as it was.
C23_SupersedeRule ==
  Merged =>
    /\ [id \in TodoIds |-> WithoutCreatedAt(web.serverState[id])]
         = SupersedeAll(MergedCache, MergedBatch)
    /\ \A id \in TodoIds :
         (\A i \in DOMAIN MergedBatch :
            MergedBatch[i].id = id => ~Supersedes(MergedBatch[i], MergedCache[id]))
           => web.serverState[id] = MergedCache[id]

\* a todo of the cached version with an earlier updatedAt has been discarded
C23_Witness ==
  /\ Merged
  /\ Len(MergedBatch) = 1
  /\ LET todo == MergedBatch[1] IN
     /\ IsTodo(MergedCache[todo.id])
     /\ todo.version = MergedCache[todo.id].version
     /\ DateParse(todo.updatedAt) < DateParse(MergedCache[todo.id].updatedAt)
     /\ web.serverState = MergedCache

\* the todos of the local list that were created here, are not in the cache and
\* are in the batch
Confirmed ==
  {i \in DOMAIN MergedLocal :
     /\ isOptimisticTodo(MergedLocal[i])
     /\ ~IsTodo(MergedCache[MergedLocal[i].id])
     /\ \E j \in DOMAIN MergedBatch : MergedBatch[j].id = MergedLocal[i].id}

\* the place of the todo in a list, 0 when it is not there
IndexOf(list, id) ==
  IF \E i \in DOMAIN list : list[i].id = id
  THEN CHOOSE i \in DOMAIN list : list[i].id = id
  ELSE 0

\* the two todos are on both lists, in the same order
SameOrder(before, after, a, b) ==
  (IndexOf(before, a) # 0 /\ IndexOf(before, b) # 0
   /\ IndexOf(after, a) # 0 /\ IndexOf(after, b) # 0)
    => ((IndexOf(before, a) < IndexOf(before, b))
          <=> (IndexOf(after, a) < IndexOf(after, b)))

\* the cached copy and the displayed copy of a todo confirmed by the batch keep
\* the createdAt the todo had on the local list
CreatedAtKept ==
  Merged =>
    \A i \in Confirmed :
      LET id == MergedLocal[i].id IN
      /\ web.serverState[id].createdAt = MergedLocal[i].createdAt
      /\ web.todos[IndexOf(web.todos, id)].createdAt = MergedLocal[i].createdAt

\* a todo confirmed by the batch is displayed before and after the same todos
PositionKept ==
  Merged =>
    \A i \in Confirmed :
      \A other \in TodoIds : SameOrder(MergedLocal, web.todos, MergedLocal[i].id, other)

\* C24: when an incoming todo replaces a todo created here (version 0) with the
\* same id, the cached copy keeps the createdAt known here, and the todo keeps
\* its position in the display order.
C24_CreatedAtPreserved == CreatedAtKept /\ PositionKept

\* the cached todo as the display list is to show it
ShownAs(cached, queue, shown) ==
  /\ shown.id = cached.id /\ shown.version = cached.version
  /\ shown.createdAt = cached.createdAt /\ shown.title = cached.title
  /\ shown.listId = cached.listId
  /\ shown.state = IF queue = <<>> THEN cached.state ELSE queue[Len(queue)].nextState

\* a is before b in the order of (createdAt, id)
Before(a, b) ==
  \/ DateParse(a.createdAt) < DateParse(b.createdAt)
  \/ DateParse(a.createdAt) = DateParse(b.createdAt) /\ StrLess(a.id, b.id)

\* the todos of the local list created here that the cache does not hold
Unconfirmed ==
  {MergedLocal[i] : i \in {j \in DOMAIN MergedLocal :
                             /\ isOptimisticTodo(MergedLocal[j])
                             /\ ~IsTodo(web.serverState[MergedLocal[j].id])}}

\* C25: the list mergeTodos returns holds every cached todo once, with the state
\* of the last mutation of its queue or its cached state when the queue is
\* empty, and every version-0 todo of the local list that has no cached copy, and
\* nothing else, in ascending order of (createdAt, id).
C25_DisplayDerivation ==
  Merged =>
    /\ \A id \in CachedIds(web) :
         \E i \in DOMAIN web.todos :
           ShownAs(web.serverState[id], web.pendingMutations[id], web.todos[i])
    /\ \A todo \in Unconfirmed : \E i \in DOMAIN web.todos : web.todos[i] = todo
    /\ Len(web.todos) = Cardinality(CachedIds(web)) + Cardinality(Unconfirmed)
    /\ \A i, j \in DOMAIN web.todos : i < j => Before(web.todos[i], web.todos[j])

\* a cached todo with two queued mutations is shown next to a todo the server
\* has not confirmed, which was on the list before it and is after it now
C25_Witness ==
  /\ Merged
  /\ Len(web.todos) = 2
  /\ Len(web.pendingMutations[web.todos[1].id]) = 2
  /\ IsTodo(web.serverState[web.todos[1].id])
  /\ isOptimisticTodo(web.todos[2])
  /\ MergedLocal[1] = web.todos[2]

\* C26: merging the batch once more changes neither the cache nor the list
\* returned: mergeTodos(mergeTodos(L, B), B) = mergeTodos(L, B).
C26_MergeIdempotent ==
  Merged =>
    LET again == mergeTodos(web, MergedBatch) IN
    /\ again.serverState = web.serverState
    /\ again.todos = web.todos

\* the batch held two copies of a todo, the later one older, and a todo the
\* cache did not know
C26_Witness ==
  /\ Merged
  /\ Len(MergedBatch) = 2
  /\ MergedBatch[1].id = MergedBatch[2].id
  /\ MergedBatch[1].version > MergedBatch[2].version
  /\ ~IsTodo(MergedCache[MergedBatch[1].id])
  /\ web.serverState[MergedBatch[1].id].version = MergedBatch[1].version

(***************************************************************************)
(* Convergence: one list, joined once; this client and others change a     *)
(* todo; every request is answered and a stale client is told of changes.  *)
(***************************************************************************)
\* the mutations the client has queued
RECURSIVE QueuedIn(_, _)
QueuedIn(w, ids) ==
  IF ids = {} THEN 0
  ELSE LET id == CHOOSE i \in ids : TRUE
       IN Len(w.pendingMutations[id]) + QueuedIn(w, ids \ {id})

\* the cache lacks a todo of the joined list or holds an older version of it
Stale ==
  /\ web.listId # NoList
  /\ \E id \in todosByList[web.listId] :
       IF IsTodo(web.serverState[id])
       THEN web.serverState[id].version # Stored(id).version
       ELSE TRUE

\* a request on the wire expects a version the server no longer has
StaleRequest ==
  \E r \in RunSlots :
    /\ web.runs[r].pc = "sent"
    /\ web.runs[r].resp = NoResp
    /\ web.runs[r].expectedVersion # Stored(web.runs[r].todoId).version

\* the stamps of the model's clock that are spoken for: the ones used, one for
\* every queued mutation, and one for the conflict that a stale cache or a
\* stale request may run into
StampsDue ==
  lastMonotonicTimestampMs + QueuedIn(web, TodoIds)
    + (IF Stale \/ StaleRequest THEN 1 ELSE 0)

\* a user of this client or of another one asks for a change, while the model's
\* clock has the stamps the change may take: its own and, for a change made
\* elsewhere, the one of the conflict it may cause here
Intent ==
  \/ /\ StampsDue + 1 <= MaxWebTs
     /\ \/ \E l \in RunLists, id \in RunIds : OtherClientCreate(l, id)
        \/ \E id \in RunIds, nextState \in TodoStates : UpdateTodoState(id, nextState)
  \/ /\ StampsDue + 2 <= MaxWebTs
     /\ \E id \in RunIds, nextState \in TodoStates : OtherClientUpdate(id, nextState)

\* the event stream opens: the server has registered the connection, so every
\* later change is announced on it, and the client hears of its status
Opened ==
  /\ web.currentSubscription # NoList
  /\ web.previousConnectionStatus # "connected"
  /\ SlotsFor(web, getTodoIdsWithPendingMutations(web))
  /\ web' = [handleConnectionStatusChange(web, "connected")
               EXCEPT !.heard = lastMonotonicTimestampMs]
  /\ UNCHANGED serverVars

\* a `changed` event that the server wrote for a change made since the stream
\* opened arrives, after the events written before it (web.heard: the stamp of
\* the latest change whose event has arrived)
ChangedDelivered ==
  /\ web.currentSubscription # NoList
  /\ web.previousConnectionStatus = "connected"
  /\ \E stamp \in (web.heard + 1)..lastMonotonicTimestampMs :
       web' = [syncOnce(web, 0, FALSE) EXCEPT !.heard = stamp]
  /\ UNCHANGED serverVars

NextLive ==
  \/ \E l \in RunLists : CreateList(l)
  \/ Intent
  \/ Bootstrap
  \/ \E l \in RunLists : web.listId = NoList /\ JoinList(l)
  \/ JoinResume
  \/ Opened
  \/ ChangedDelivered
  \/ ServeSync
  \/ SyncResume
  \/ \E r \in RunSlots : ServeUpdate(r)
  \/ \E r \in RunSlots : RunResume(r)

\* a sync answer is waiting for syncOnce to resume: SyncResume is enabled
SyncAnswered ==
  /\ web.sync.pc = "sent"
  /\ web.sync.resp # NoResp
  /\ (web.sync.waiter \notin RunSlots /\ web.sync.waiter # -1 /\ web.sync.thenRestart)
       => LET resumed == syncOnceResume(web)
          IN SlotsFor(resumed, getTodoIdsWithPendingMutations(resumed))

\* an update answer is waiting for the run to resume: RunResume(r) is enabled
RunAnswered(r) ==
  /\ web.runs[r].pc = "sent"
  /\ web.runs[r].resp # NoResp

\* the network delivers and the event loop runs what is ready: a request on the
\* wire is answered, an answer resumes its caller, the event stream opens and
\* every `changed` event written to it arrives. For the two resumptions weak fairness is
\* written out, WF_vars(A) being []<>~ENABLED <<A>>_vars \/ []<><<A>>_vars,
\* with the action's guard for ENABLED
FairDelivery ==
  /\ WF_vars(JoinResume)
  /\ WF_vars(ServeSync)
  /\ WF_vars(Opened)
  /\ WF_vars(ChangedDelivered)
  /\ \A r \in RunSlots : WF_vars(ServeUpdate(r))
  /\ []<>~SyncAnswered \/ []<><<SyncResume>>_vars
  /\ \A r \in RunSlots : []<>~RunAnswered(r) \/ []<><<RunResume(r)>>_vars

\* the guards are the actions' enabling conditions: an action with its guard
\* true takes a step that changes the client (an invariant of SpecLive)
GuardedStepsChange ==
  /\ \A r \in RunSlots : RunAnswered(r) => HandleResult(web, r) # web
  /\ SyncAnswered =>
       LET waiter == web.sync.waiter
           resumed == syncOnceResume(web)
       IN (IF waiter \in RunSlots THEN processMutations(resumed, waiter)
           ELSE IF waiter = -1 THEN JoinEnd(resumed)
           ELSE IF web.sync.thenRestart THEN restartAllMutationRuns(resumed)
           ELSE resumed) # web

SpecLive == Init /\ [][NextLive]_vars /\ FairDelivery

\* no mutation is queued and the cache has every todo of the list at the
\* server's version and state
Consistent ==
  web.listId # NoList =>
    /\ \A id \in TodoIds : web.pendingMutations[id] = <<>>
    /\ \A id \in todosByList[web.listId] :
         IF IsTodo(web.serverState[id])
         THEN /\ web.serverState[id].version = Stored(id).version
              /\ web.serverState[id].state = Stored(id).state
         ELSE FALSE

C28_RevalidatesAfterSync ==
  [][\A r \in RunSlots :
       Handles(r, 400) =>
         /\ ~NewRequest(r)
         /\ web'.pendingMutations[web.runs[r].todoId] # <<>>
              => /\ web'.runs[r].pc = "syncing"
                 /\ web'.sync.waiter = r]_vars

(***************************************************************************)
(* The update route on a store that holds a soft-deleted todo.             *)
(***************************************************************************)
\* no route deletes a todo: a soft-deleted one is in the store because the
\* store's createTodo was handed an object with deletedAt set
SeededId == <<2>>
SeededList == "L1"
SeededTodo ==
  [id |-> SeededId, listId |-> SeededList, title |-> "t1", state |-> "TODO",
   createdAt |-> ToISOString(0), updatedAt |-> ToISOString(0), version |-> 1,
   deletedAt |-> ToISOString(0)]

\* the server with the list created and the soft-deleted todo stored
InitSeeded ==
  /\ lastMonotonicTimestampMs = 0
  /\ lists = {SeededList}
  /\ heap = <<SeededTodo>>
  /\ todos = [id \in TodoIds |-> IF id = SeededId THEN 1 ELSE 0]
  /\ todosByList = [l \in ListIds |-> IF l = SeededList THEN {SeededId} ELSE {}]
  /\ subscribers = [l \in ListIds |-> {}]
  /\ subscriberLists = {}
  /\ handlers = [h \in Slots |-> Idle]
  /\ syncToken = [l \in ListIds |-> NoToken]
  /\ tsLog = <<>>
  /\ lastWriteAt = <<>>
  /\ lastWrite = [l \in ListIds |-> <<>>]
  /\ accepted = [id \in TodoIds |-> 0]
  /\ created = [id \in TodoIds |-> 0]
  /\ race = <<NoRace>>
  /\ syncMon = [l \in ListIds |-> NoSync]
  /\ signals = [k \in Conns |-> 0]
  /\ web = WebInit

\* creates of the other todo, and updates of both
NextSeeded ==
  \/ \E h \in Slots, id \in WriteIds :
       CreateStart(h, SeededList, id, "t1", GoodCreatedAt)
  \/ \E h \in Slots : CreateLookup(h)
  \/ \E h \in Slots, nowMs \in 0..MaxClock : CreateStore(h, nowMs)
  \/ \E h \in Slots : CreateReply(h, {})
  \/ \E h \in Slots, id \in WriteIds \cup {SeededId}, nextState \in TodoStates,
        expectedVersion \in 1..MaxSyncExpected :
       PatchStart(h, id, nextState, expectedVersion)
  \/ \E h \in Slots, nowMs \in 0..MaxClock : PatchApply(h, nowMs)
  \/ \E h \in Slots : PatchReply(h, {})

SpecSeeded == InitSeeded /\ [][NextSeeded]_vars

\* getTodo gave the update request no todo, or a soft-deleted one
Missing(req) ==
  /\ req.kind = "patch" /\ req.pc = "patch_apply"
  /\ req.ref = 0 \/ Truthy(heap[req.ref].deletedAt)

\* C29: an update request for an unknown or soft-deleted todo is answered 404
\* NOT_FOUND in its next step, whatever nextState and expectedVersion it
\* carries, and that step leaves the store, the clock and the event streams as
\* they are: no version, state or updatedAt changes and no `changed` is written.
C29_MissingTodoIs404 ==
  [][\A h \in Slots :
       (Missing(handlers[h]) /\ handlers'[h] # handlers[h]) =>
         /\ Replies(h)
         /\ Response(h).status = 404
         /\ Response(h).code = "NOT_FOUND"
         /\ UNCHANGED <<storeVars, lastMonotonicTimestampMs, subscribers, subscriberLists, signals,
                        tsLog, accepted>>]_vars

\* an update of the soft-deleted todo that carries its version and a state it
\* could move to is about to be answered, next to one of a todo never created
C29_Witness ==
  /\ \E h \in Slots :
       /\ Missing(handlers[h])
       /\ handlers[h].ref # 0
       /\ handlers[h].expectedVersion = heap[handlers[h].ref].version
       /\ isValidTransition(heap[handlers[h].ref].state, handlers[h].nextState)
  /\ \E h \in Slots : Missing(handlers[h]) /\ handlers[h].ref = 0

(***************************************************************************)
(* The version a state-change request carries.                             *)
(***************************************************************************)
\* C30: every step that puts a state-change request on the wire gives it the
\* version of the todo's cache entry as that step leaves the cache, with
\* whatever the step has merged before sending; the version of an entry that a
\* merge has since replaced is never sent.
C30_ExpectedVersionIsCached ==
  [][\A r \in RunSlots :
       NewRequest(r) =>
         /\ IsTodo(web'.serverState[web'.runs[r].todoId])
         /\ web'.runs[r].expectedVersion
              = web'.serverState[web'.runs[r].todoId].version]_vars

\* the watched todo's request was refused with 400, a sync has since merged two
\* newer versions, and the mutation is on the wire again with the cached one
C30_Witness ==
  /\ web.hist.watch
  /\ web.runGeneration = web.hist.gen
  /\ Len(web.hist.log) = 2
  /\ web.hist.log[1].status = 400
  /\ web.hist.log[2].expectedVersion >= web.hist.log[1].expectedVersion + 2
  /\ \E r \in RunSlots :
       /\ InFlight(r)
       /\ web.runs[r].todoId = web.hist.id
       /\ web.runs[r].expectedVersion = web.hist.log[2].expectedVersion
       /\ web.runs[r].expectedVersion = web.serverState[web.hist.id].version

(***************************************************************************)
(* sse.ts: the subscriber sets under failing writes and closing            *)
(* connections (SpecEvents).                                               *)
(***************************************************************************)
\* handler h answers an accepted create or update: notifyListChanged runs
Notifies(h) ==
  Writing(handlers[h]) /\ Replies(h) /\ Response(h).status \in {200, 201}

\* one more `changed` message on a connection
OneMore(n) == IF n < MaxSignals THEN n + 1 ELSE n

\* C31: notifyListChanged drops from the list's set exactly the subscribers
\* whose write throws, which get no message, writes the message to every other
\* subscriber of the list and keeps the list's entry; no step writes a message
\* to a connection that is not (or no longer) subscribed; a list with
\* subscribers has an entry, and the unsubscribe that takes the last connection
\* out of a list's set removes the list's entry.
C31_FailedWritesDropSubscribers ==
  [][/\ \A h \in Slots :
          Notifies(h) =>
            LET l == Response(h).body[1].listId
            IN /\ subscribers'[l] \subseteq subscribers[l]
               /\ \A k \in subscribers[l] \ subscribers'[l] : signals'[k] = signals[k]
               /\ \A k \in subscribers'[l] : signals'[k] = OneMore(signals[k])
               /\ \A m \in ListIds \ {l} : subscribers'[m] = subscribers[m]
               /\ subscriberLists' = subscriberLists
     /\ \A k \in Conns :
          signals'[k] > signals[k] =>
            \E l \in ListIds : k \in subscribers[l] \cap subscribers'[l]
     /\ \A l \in ListIds :
          /\ subscribers'[l] # {} => l \in subscriberLists'
          /\ (handlers' = handlers /\ subscribers[l] # {} /\ subscribers'[l] = {})
               => l \notin subscriberLists']_vars

\* a second write to L1 has thrown on k1, which had received the first message
\* and is subscribed no more, while k2 has received both
C31_Witness ==
  /\ subscribers["L1"] = {"k2"}
  /\ \A l \in ListIds : "k1" \notin subscribers[l]
  /\ signals["k1"] = 1
  /\ signals["k2"] = 2
  /\ "L1" \in subscriberLists

(***************************************************************************)
(* state.ts: the pending-mutation queues, driven call by call.             *)
(***************************************************************************)
Enqueue(todoId, nextState) ==
  /\ Len(web.pendingMutations[todoId]) < MaxQueue
  /\ web' = enqueueMutation(web, todoId, nextState)
  /\ UNCHANGED serverVars

Dequeue(todoId) ==
  /\ web' = dequeueMutation(web, todoId)
  /\ UNCHANGED serverVars

DeletePending(todoId) ==
  /\ web' = deletePendingMutations(web, todoId)
  /\ UNCHANGED serverVars

NextQueue ==
  \/ \E id \in TodoIds, nextState \in TodoStates : Enqueue(id, nextState)
  \/ \E id \in TodoIds : Dequeue(id)
  \/ \E id \in TodoIds : DeletePending(id)

SpecQueue == Init /\ [][NextQueue]_vars

\* the queue grows by one mutation at its tail
AppendsOne(before, after) ==
  /\ Len(after) = Len(before) + 1
  /\ SubSeq(after, 1, Len(before)) = before

\* C32: a call changes the queue of one todo id only; it appends one mutation
\* at the tail (enqueueMutation), removes the oldest one (dequeueMutation) or
\* empties the queue (deletePendingMutations); getNextMutation is the oldest
\* mutation still queued; and getTodoIdsWithPendingMutations returns the ids
\* whose queue is not empty.
C32_QueuesAreFifo ==
  [][/\ \A id \in TodoIds :
          LET before == web.pendingMutations[id]
              after == web'.pendingMutations[id]
          IN /\ \/ after = before
                \/ AppendsOne(before, after)
                \/ before # <<>> /\ after = Tail(before)
                \/ after = <<>>
             /\ after # before =>
                  \A other \in TodoIds \ {id} :
                    web'.pendingMutations[other] = web.pendingMutations[other]
             /\ (before # <<>> /\ Len(after) >= Len(before)) =>
                  getNextMutation(web', id) = getNextMutation(web, id)
             /\ Len(before) >= 2 /\ Len(after) = Len(before) - 1 =>
                  getNextMutation(web', id) = before[2]
     /\ getTodoIdsWithPendingMutations(web')
          = {id \in TodoIds : web'.pendingMutations[id] # <<>>}]_vars

\* both todos have mutations queued, one of them two different ones in the
\* order of their calls
C32_Witness ==
  /\ Len(web.pendingMutations[<<1>>]) = 2
  /\ web.pendingMutations[<<1>>][1].nextState = "ONGOING"
  /\ web.pendingMutations[<<1>>][2].nextState = "DONE"
  /\ getNextMutation(web, <<1>>).nextState = "ONGOING"
  /\ Len(web.pendingMutations[<<2>>]) = 1
  /\ getTodoIdsWithPendingMutations(web) = TodoIds

(***************************************************************************)
(* state.ts: clearSyncState.                                               *)
(***************************************************************************)
\* the step runs clearSyncState: the run generation changes
Clears == web'.runGeneration # web.runGeneration

\* C33: the step that runs clearSyncState leaves the generation one higher and
\* the cache, every queue and the active-run registry empty; clearSyncState
\* has no await, so every continuation that runs later finds all of it done
\* (every run that is suspended across the step finds its generation cancelled
\* and its todo's queue and registry entry gone).
C33_ClearIsOneStep ==
  [][Clears =>
       /\ web'.runGeneration = web.runGeneration + 1
       /\ \A id \in TodoIds :
            /\ ~IsTodo(web'.serverState[id])
            /\ web'.pendingMutations[id] = <<>>
       /\ getTodoIdsWithPendingMutations(web') = {}
       /\ web'.activeRuns = {}
       /\ \A r \in RunSlots :
            web'.runs[r].pc # "none" => ~isRunValid(web', web'.runs[r].gen)]_vars

\* clearSyncState has run while a mutation was queued and its request was on
\* the wire: the request is still out, for a run of the generation before
C33_Witness ==
  /\ web.runGeneration >= 2
  /\ web.activeRuns = {}
  /\ \A id \in TodoIds : web.pendingMutations[id] = <<>> /\ ~IsTodo(web.serverState[id])
  /\ \E r \in RunSlots : InFlight(r) /\ web.runs[r].gen = web.runGeneration - 1

Settled(todoId) ==
  /\ web.pendingMutations[todoId] = <<>>
  /\ AtRest(todoId)

Signal ==
  /\ web.user
  /\ web.listId # NoList
  /\ web.currentSubscription # NoList
  /\ web' = syncOnce(web, 0, FALSE)
  /\ web' # web

\* the repeat was queued by a `changed` event: the request in flight is the one
\* joinList sent, and the stream has not reported `connected` since (joinList
\* itself is suspended, so no other caller of syncOnce has run)
QueuedBySignal ==
  /\ web.syncQueued
  /\ web.sync.waiter = -1
  /\ web.previousConnectionStatus = "connecting"

\* C36 (as the code has it): the step that handles a `changed` event puts a sync
\* request on the wire, or, with one in flight, queues the repeat; a queued
\* repeat stays queued, the request in flight, until that request settles; and
\* the step in which it settles puts the next request on the wire if the client
\* still has a user and a list then.
C36_NoLostWakeUp ==
  [][/\ Signal =>
          \/ NewSyncRequest
          \/ SyncInFlight(web) /\ SyncInFlight(web') /\ web'.syncQueued
     /\ (web.syncQueued /\ ~SyncSettles) => (web'.syncQueued /\ SyncInFlight(web'))
     /\ (SyncSettles /\ web.syncQueued /\ web'.user /\ web.listId # NoList)
          => NewSyncRequest]_vars

\* C36 as stated: a `changed` event is followed by a sync request, sent in the
\* step that handles it or in the step in which the request in flight settles
C36_SignalAlwaysFetched ==
  [][/\ Signal => (NewSyncRequest \/ web'.syncQueued)
     /\ (SyncSettles /\ QueuedBySignal) => NewSyncRequest]_vars

\* a `changed` event has arrived during a sync: the list is joined (the join
\* has ended and the stream has not reported `connected`, so neither queued the
\* repeat), the answer 200 to the request in flight waits, the repeat is queued
C36_Witness ==
  /\ web.user
  /\ web.listId # NoList
  /\ web.actionStatus = "idle"
  /\ web.previousConnectionStatus = "connecting"
  /\ SyncInFlight(web)
  /\ web.sync.resp.status = 200
  /\ web.sync.waiter = 0
  /\ web.syncQueued
  /\ \E id \in todosByList[web.listId] : ~IsTodo(web.serverState[id])

(***************************************************************************)
(* The display list and the todos created here.                            *)
(***************************************************************************)
\* no two entries of the list have the same id
NoDuplicateIds(list) ==
  \A i, j \in DOMAIN list : list[i].id = list[j].id => i = j

\* the step merges todos the server sent into the display list: syncOnce
\* resumes with a 200, or createTodo with a 201
MergeStep ==
  \/ SyncSettles /\ web.sync.resp.status = 200
  \/ web.create.pc = "sent" /\ web.create.resp.status = 201 /\ web'.create = NoCall

\* C37: the display list never holds two entries with one id; a step that merges
\* todos from the server leaves, for every version-0 entry of the list, the one
\* entry of the cached copy in its place when the cache now holds the todo, and
\* the entry itself when it does not.
C37_NoDuplicateEntries ==
  [][/\ NoDuplicateIds(web.todos) /\ NoDuplicateIds(web'.todos)
     /\ MergeStep =>
          \A i \in DOMAIN web.todos :
            isOptimisticTodo(web.todos[i]) =>
              LET id == web.todos[i].id
                  shown == {j \in DOMAIN web'.todos : web'.todos[j].id = id}
              IN IF IsTodo(web'.serverState[id])
                 THEN /\ Cardinality(shown) = 1
                      /\ \A j \in shown :
                           /\ web'.todos[j].version = web'.serverState[id].version
                           /\ web'.todos[j].version >= 1
                 ELSE \E j \in shown : web'.todos[j] = web.todos[i]]_vars

\* a sync has delivered the todo created here while the answer to its create
\* request waits: the list shows the confirmed copy in place of the version-0
\* entry, next to another client's todo
C37_Witness ==
  /\ web.listId # NoList
  /\ web.create.pc = "sent"
  /\ web.create.resp.status = 201
  /\ web.create.gen = web.runGeneration
  /\ IsTodo(web.serverState[web.create.id])
  /\ Len(web.todos) = 2
  /\ NoDuplicateIds(web.todos)
  /\ \A i \in DOMAIN web.todos : web.todos[i].version = 1

(***************************************************************************)
(* The versions of the cached copies.                                      *)
(***************************************************************************)
\* C38: in a step that does not run clearSyncState, no cached copy is removed
\* and none is replaced by a copy of a lower version, whichever answer the step
\* merges: a sync result, the answer to a mutation, or the entity a conflict
\* answer carries.
C38_CachedVersionsGrow ==
  [][~Clears =>
       \A id \in TodoIds :
         IsTodo(web.serverState[id]) =>
           /\ IsTodo(web'.serverState[id])
           /\ web'.serverState[id].version >= web.serverState[id].version]_vars

\* a sync answer that is older than the cached copy waits to be merged: the
\* cache took the entity of a conflict answer after the sync request was served
C38_Witness ==
  /\ web.sync.pc = "sent"
  /\ web.sync.resp.status = 200
  /\ web.sync.gen = web.runGeneration
  /\ \E i \in DOMAIN web.sync.resp.body :
       LET incoming == web.sync.resp.body[i] IN
       /\ IsTodo(web.serverState[incoming.id])
       /\ incoming.version < web.serverState[incoming.id].version
       /\ web.serverState[incoming.id].version >= 3

(***************************************************************************)
(* The active-run registry.                                                *)
(***************************************************************************)
\* a processMutations call of the current generation is alive for the todo
LoopAlive(w, todoId) ==
  \E r \in RunSlots :
    /\ w.runs[r].pc # "none"
    /\ w.runs[r].todoId = todoId
    /\ w.runs[r].gen = w.runGeneration

\* the step in which the processMutations call in slot r returns
LoopEnds(r) == web.runs[r].pc # "none" /\ web'.runs[r].pc = "none"

\* C39: a todo has an entry in activeRuns exactly when a processMutations call
\* of the current generation is alive for it; the step in which a call of the
\* current generation returns removes the todo's entry, and the step in which a
\* call of an earlier generation returns leaves the registry as it is (unless
\* the step runs clearSyncState, which empties it), so the entry of a newer run
\* for the same todo stays.
C39_RegistryExact ==
  [][/\ \A id \in TodoIds : hasActiveRun(web', id) <=> LoopAlive(web', id)
     /\ \A r \in RunSlots :
          LoopEnds(r) =>
            IF web.runs[r].gen = web.runGeneration
            THEN ~hasActiveRun(web', web.runs[r].todoId)
            ELSE Clears \/ web'.activeRuns = web.activeRuns]_vars

\* a run of an earlier generation has returned (the first slot is free again)
\* while the run that was started for the same todo after clearSyncState is
\* alive in the second slot, its entry in the registry
C39_Witness ==
  /\ web.runs[1].pc = "none"
  /\ web.runs[2].pc # "none"
  /\ web.runs[2].gen = web.runGeneration
  /\ web.runs[2].todoId \in web.activeRuns
  /\ web.activeRuns = {web.runs[2].todoId}
  /\ \A id \in TodoIds \ {web.runs[2].todoId} : ~IsTodo(web.serverState[id])

(***************************************************************************)
(* retry as a function: one call, with every option and every behaviour    *)
(* of the task, of shouldRetry and of the signal.                          *)
(***************************************************************************)
MaxRetriesArg == 3
RetryCounts == 0..MaxRetriesArg
TaskErrors == {TaskFailed, ServerError, AbortError, StringError}

\* retry(task, options) is called
RetryCall(retries, hasShouldRetry, hasSignal) ==
  /\ web.retry.pc = "none"
  /\ web' = [web EXCEPT !.retry = retry(retries, hasShouldRetry, hasSignal)]
  /\ UNCHANGED serverVars

\* the task returns: its result names the call that produced it
TaskFulfilled ==
  /\ web.retry.pc = "task"
  /\ web' = [web EXCEPT !.retry = retryTaskFulfilled(@, Len(@.calls))]
  /\ UNCHANGED serverVars

\* the task throws; shouldRetry, if it is asked, answers with verdict
TaskRejected(error, verdict) ==
  /\ web.retry.pc = "task"
  /\ web' = [web EXCEPT !.retry = retryTaskRejected(@, error, verdict)]
  /\ UNCHANGED serverVars

\* the backoff timer fires, or the abort of the signal ends it early
BackoffResolved ==
  /\ web.retry.pc = "backoff"
  /\ web' = [web EXCEPT !.retry = retryBackoffDone(@)]
  /\ UNCHANGED serverVars

\* the caller aborts the signal it passed
SignalAborted ==
  /\ web.retry.pc \in {"task", "backoff"}
  /\ web.retry.hasSignal
  /\ ~web.retry.aborted
  /\ web' = [web EXCEPT !.retry.aborted = TRUE]
  /\ UNCHANGED serverVars

NextRetryCall ==
  \/ \E retries \in RetryCounts, hasShouldRetry, hasSignal \in BOOLEAN :
       RetryCall(retries, hasShouldRetry, hasSignal)
  \/ TaskFulfilled
  \/ \E error \in TaskErrors, verdict \in BOOLEAN : TaskRejected(error, verdict)
  \/ BackoffResolved
  \/ SignalAborted

SpecRetryCall == Init /\ [][NextRetryCall]_vars

\* the task threw an Error that retry may retry after
Retriable(error) == error.isError /\ error.name # "AbortError"

\* C40: retry(task, {retries: n}) calls the task with 1, 2, ... and at most n+1
\* times; the k-th call that fails with an Error is followed by backoff(k), and
\* by the next call after it, unless it was call n+1 or shouldRetry returned
\* false for its error: then retry throws that error at once, with no backoff
\* and no further call; once the task returns (the signal not aborted), retry
\* returns that result, every call before having failed, and nothing is called
\* afterwards.
C40_RetryContract ==
  [][LET c == web'.retry
         failed == Len(c.failures)
     IN /\ Len(c.calls) <= c.retries + 1
        /\ \A i \in DOMAIN c.calls : c.calls[i] = i
        /\ \A k \in DOMAIN c.backoffs : c.backoffs[k] = k /\ Retriable(c.failures[k])
        /\ Len(c.backoffs) <= failed /\ failed <= Len(c.calls)
        /\ Len(c.calls) <= Len(c.backoffs) + 1
        /\ c.pc = "task" => Len(c.calls) = Len(c.backoffs) + 1 /\ failed = Len(c.backoffs)
        /\ c.pc = "backoff" =>
             /\ Len(c.backoffs) = failed /\ Len(c.calls) = failed
             /\ failed <= c.retries
             /\ c.hasShouldRetry => c.verdicts[failed]
        /\ (failed > 0 /\ Retriable(c.failures[failed])
             /\ (failed = c.retries + 1
                   \/ (Len(c.verdicts) = failed /\ ~c.verdicts[failed]))) =>
               /\ c.outcome = [kind |-> "threw", value |-> 0, error |-> c.failures[failed]]
               /\ Len(c.calls) = failed /\ Len(c.backoffs) = failed - 1
        /\ (c.outcome.kind = "threw" /\ Retriable(c.outcome.error)
             /\ c.outcome.error # NonErrorThrown) =>
               /\ failed > 0 /\ c.outcome.error = c.failures[failed]
               /\ \/ failed = c.retries + 1
                  \/ Len(c.verdicts) = failed /\ ~c.verdicts[failed]
        /\ c.outcome.kind = "returned" =>
             /\ c.outcome.value = Len(c.calls)
             /\ failed = Len(c.calls) - 1
             /\ Len(c.backoffs) = failed
        /\ (web.retry.pc = "task" /\ ~web.retry.aborted /\ failed = Len(web.retry.failures)
              /\ c.pc # "task") =>
             c.outcome.kind = "returned"
        /\ web.retry.outcome.kind # "none" => c = web.retry]_vars

\* retry({retries: 3}) has returned the result of the fourth call, after three
\* failures and backoff(1), backoff(2), backoff(3)
C40_Witness ==
  /\ web.retry.retries = 3
  /\ web.retry.outcome.kind = "returned"
  /\ web.retry.outcome.value = 4
  /\ web.retry.calls = <<1, 2, 3, 4>>
  /\ web.retry.backoffs = <<1, 2, 3>>
  /\ Len(web.retry.failures) = 3

====
